---- MODULE Spec2Model ----
(***************************************************************************)
(* Model of the FOUND website server: camera-specification resolution,    *)
(* the edge-detection / distance child processes and the request handlers *)
(* of the three server variants kept in the repository:                   *)
(*   "basic"  src/unnamed/part_000 lines 1-287                            *)
(*   "manual" src/server.js lines 1-574                                   *)
(*   "edge"   src/unnamed/part_000 lines 289-1298                         *)
(***************************************************************************)
EXTENDS Integers, Sequences, FiniteSets, TLC

(***************************************************************************)
(* JavaScript values.  Every value is a record of the same shape so that   *)
(* any two values can be compared.  Numbers are exact fractions n/d with   *)
(* d > 0 in lowest terms; strings are sequences of one-character strings.  *)
(***************************************************************************)
Null == [t |-> "null", n |-> 0, d |-> 1, s |-> <<>>]

NaN == [t |-> "nan", n |-> 0, d |-> 1, s |-> <<>>]

Str(chars) == [t |-> "str", n |-> 0, d |-> 1, s |-> chars]

Abs(x) == IF x < 0 THEN -x ELSE x

RECURSIVE Gcd(_, _)
Gcd(a, b) == IF b = 0 THEN a ELSE Gcd(b, a % b)

Num(n, d) ==
    LET g == Gcd(Abs(n), d)
    IN  [t |-> "num", n |-> n \div g, d |-> d \div g, s |-> <<>>]

IntV(n) == Num(n, 1)

IsNum(v) == v.t = "num"

\* ToBoolean: null, NaN, 0 and the empty string are falsy.
Truthy(v) ==
    \/ v.t = "num" /\ v.n # 0
    \/ v.t = "str" /\ v.s # <<>>

\* a || b
Or(a, b) == IF Truthy(a) THEN a ELSE b

\* v > k for an integer literal k; false for null-as-0 when k >= 0, NaN and
\* the (non-numeric) strings of the samples.
Gt(v, k) == v.t = "num" /\ v.n > k * v.d

Positive(v) == Gt(v, 0)

Mul(a, b) ==
    IF a.t = "num" /\ b.t = "num" THEN Num(a.n * b.n, a.d * b.d)
    ELSE IF a.t = "null" /\ b.t = "num" THEN IntV(0)
    ELSE NaN

\* a / b on numbers with b # 0 (the callers test b for truthiness first).
Div(a, b) ==
    IF a.t = "num" /\ b.t = "num" /\ b.n # 0
    THEN IF b.n > 0 THEN Num(a.n * b.d, a.d * b.n)
         ELSE Num(-(a.n * b.d), a.d * (-b.n))
    ELSE NaN

Add(a, b) ==
    IF a.t = "num" /\ b.t = "num" THEN Num(a.n * b.d + b.n * a.d, a.d * b.d)
    ELSE NaN

(***************************************************************************)
(* Characters and strings.                                                 *)
(***************************************************************************)
Digits == <<"0", "1", "2", "3", "4", "5", "6", "7", "8", "9">>

UpperCase == <<"A", "B", "C", "D", "E", "F", "G", "H", "I", "J", "K", "L", "M",
               "N", "O", "P", "Q", "R", "S", "T", "U", "V", "W", "X", "Y", "Z">>

LowerCase == <<"a", "b", "c", "d", "e", "f", "g", "h", "i", "j", "k", "l", "m",
               "n", "o", "p", "q", "r", "s", "t", "u", "v", "w", "x", "y", "z">>

Range(f) == {f[i] : i \in DOMAIN f}

IsDigit(c) == c \in Range(Digits)

DigitVal(c) == (CHOOSE i \in DOMAIN Digits : Digits[i] = c) - 1

\* \s
IsSpace(c) == c \in {" ", "\n", "\t"}

\* \w
IsWord(c) == c \in Range(Digits) \cup Range(UpperCase) \cup Range(LowerCase) \cup {"_"}

LowerChar(c) ==
    IF c \in Range(UpperCase)
    THEN LowerCase[CHOOSE i \in DOMAIN UpperCase : UpperCase[i] = c]
    ELSE c

toLowerCase(s) == [i \in DOMAIN s |-> LowerChar(s[i])]

\* s.substring(i-1, j-1): the characters at positions i .. j-1 (1-based)
Slice(s, i, j) == IF j <= i THEN <<>> ELSE SubSeq(s, i, j - 1)

\* the first position >= i whose character is not in the class, scanning a
\* maximal run (Len(s)+1 when the run reaches the end)
RunEnd(s, i, InClass(_)) ==
    CHOOSE j \in i..(Len(s) + 1) :
        /\ \A k \in i..(j - 1) : InClass(s[k])
        /\ (j = Len(s) + 1 \/ ~InClass(s[j]))

trim(s) ==
    LET a == RunEnd(s, 1, IsSpace)
    IN  IF a > Len(s) THEN <<>>
        ELSE LET b == CHOOSE j \in a..Len(s) :
                        /\ ~IsSpace(s[j])
                        /\ \A k \in (j + 1)..Len(s) : IsSpace(s[k])
             IN  SubSeq(s, a, b)

\* sub occurs in s at position i
OccursAt(s, sub, i) ==
    /\ i + Len(sub) - 1 <= Len(s)
    /\ \A k \in 1..Len(sub) : s[i + k - 1] = sub[k]

\* s.includes(sub)
includes(s, sub) == \E i \in 1..(Len(s) + 1) : OccursAt(s, sub, i)

RECURSIVE DigitsToInt(_)
DigitsToInt(ds) ==
    IF ds = <<>> THEN 0
    ELSE 10 * DigitsToInt(SubSeq(ds, 1, Len(ds) - 1)) + DigitVal(ds[Len(ds)])

RECURSIVE Pow10(_)
Pow10(k) == IF k = 0 THEN 1 ELSE 10 * Pow10(k - 1)

(***************************************************************************)
(* parseFloat: the longest prefix (after leading white space) that is a    *)
(* decimal literal; NaN when there is none.                                *)
(***************************************************************************)
\* the value of the literal: digits ip.fp, scaled by ten to the exponent
Decimal(neg, ip, fp, eneg, ex) ==
    IF ip = <<>> /\ fp = <<>> THEN NaN
    ELSE IF (IF eneg THEN -ex ELSE ex) - Len(fp) >= 0
    THEN Num((IF neg THEN -1 ELSE 1) * DigitsToInt(ip \o fp)
                 * Pow10((IF eneg THEN -ex ELSE ex) - Len(fp)), 1)
    ELSE Num((IF neg THEN -1 ELSE 1) * DigitsToInt(ip \o fp),
             Pow10(Len(fp) - (IF eneg THEN -ex ELSE ex)))

\* position after an optional sign at i
SignEnd(s, i) == IF i <= Len(s) /\ s[i] \in {"+", "-"} THEN i + 1 ELSE i

IsMinus(s, i) == i <= Len(s) /\ s[i] = "-"

\* position after an optional fraction ".ddd" at i
FractionEnd(s, i) ==
    IF i <= Len(s) /\ s[i] = "." THEN RunEnd(s, i + 1, IsDigit) ELSE i

\* the digits of an exponent "e[+-]ddd" at i (none when there is no exponent)
ExponentDigits(s, i) ==
    IF i <= Len(s) /\ s[i] \in {"e", "E"}
    THEN Slice(s, SignEnd(s, i + 1), RunEnd(s, SignEnd(s, i + 1), IsDigit))
    ELSE <<>>

\* the literal with sign at i0, whole part [i1, i2) and fraction up to i3
Literal(s, i0, i1, i2, i3) ==
    Decimal(IsMinus(s, i0), Slice(s, i1, i2),
            IF i3 > i2 THEN Slice(s, i2 + 1, i3) ELSE <<>>,
            ExponentDigits(s, i3) # <<>> /\ IsMinus(s, i3 + 1),
            DigitsToInt(ExponentDigits(s, i3)))

WholeEnd(s, i0, i1, i2) == Literal(s, i0, i1, i2, FractionEnd(s, i2))

SignedFrom(s, i0, i1) == WholeEnd(s, i0, i1, RunEnd(s, i1, IsDigit))

parseFloat(s) ==
    SignedFrom(s, RunEnd(s, 1, IsSpace), SignEnd(s, RunEnd(s, 1, IsSpace)))

(***************************************************************************)
(* parseDistanceFromOutput.  A regular-expression search returns the       *)
(* leftmost position at which the pattern matches; every quantifier of the *)
(* three patterns is followed by a character outside its class, so the     *)
(* greedy match at a position is the only possible match there.            *)
(***************************************************************************)
LowerIs(s, i, c) == i <= Len(s) /\ LowerChar(s[i]) = c

\* [\d\.e\+\-] under the i flag
IsNumChar(c) == IsDigit(c) \/ c \in {".", "e", "E", "+", "-"}

LeastIn(S) == CHOOSE i \in S : \A j \in S : i <= j

\* /(\d+\.?\d*)\s*meters?/i  -- capture [i, EndLegacy) when it matches at i
LegacyCaptureEnd(s, i) ==
    LET a == RunEnd(s, i, IsDigit)
    IN  IF a <= Len(s) /\ s[a] = "." THEN RunEnd(s, a + 1, IsDigit) ELSE a

LegacyMatchAt(s, i) ==
    LET b == LegacyCaptureEnd(s, i)
        c == RunEnd(s, b, IsSpace)
    IN  /\ IsDigit(s[i])
        /\ OccursAt(toLowerCase(s), <<"m", "e", "t", "e", "r">>, c)

parseDistanceLegacy(output) ==
    LET starts == {i \in 1..Len(output) : LegacyMatchAt(output, i)}
    IN  IF starts = {} THEN Null
        ELSE LET i == LeastIn(starts)
             IN  parseFloat(Slice(output, i, LegacyCaptureEnd(output, i)))

DistanceLabel ==
    <<"d", "i", "s", "t", "a", "n", "c", "e", " ", "f", "r", "o", "m", " ",
      "e", "a", "r", "t", "h", ":">>

\* /Distance from Earth:\s*([\d\.e\+\-]+)\s*m/i
LabeledNumStart(s, i) == RunEnd(s, i + Len(DistanceLabel), IsSpace)

LabeledMatchAt(s, i) ==
    LET a == LabeledNumStart(s, i)
        b == RunEnd(s, a, IsNumChar)
        c == RunEnd(s, b, IsSpace)
    IN  /\ OccursAt(toLowerCase(s), DistanceLabel, i)
        /\ b > a
        /\ LowerIs(s, c, "m")

\* /([\d\.e\+\-]+)\s*m(?:\s|$)/i
FallbackMatchAt(s, i) ==
    LET b == RunEnd(s, i, IsNumChar)
        c == RunEnd(s, b, IsSpace)
    IN  /\ IsNumChar(s[i])
        /\ LowerIs(s, c, "m")
        /\ (c = Len(s) \/ IsSpace(s[c + 1]))

parseDistanceEdge(output) ==
    LET labeled  == {i \in 1..Len(output) : LabeledMatchAt(output, i)}
        fallback == {i \in 1..Len(output) : FallbackMatchAt(output, i)}
    IN  IF labeled # {}
        THEN LET a == LabeledNumStart(output, LeastIn(labeled))
             IN  parseFloat(Slice(output, a, RunEnd(output, a, IsNumChar)))
        ELSE IF fallback # {}
        THEN LET i == LeastIn(fallback)
             IN  parseFloat(Slice(output, i, RunEnd(output, i, IsNumChar)))
        ELSE Null

parseDistanceFromOutput(variant, output) ==
    IF variant = "edge" THEN parseDistanceEdge(output)
    ELSE parseDistanceLegacy(output)

(***************************************************************************)
(* The device database and estimatePixelSize.  Object.keys enumerates the  *)
(* keys in insertion order, so the tables are sequences and Array.find is  *)
(* the first index whose entry satisfies the predicate.                    *)
(***************************************************************************)
basicCameraDatabase ==
    <<
     [make |-> <<"i", "P", "h", "o", "n", "e">>,
      models |-> <<
         <<<<"i", "P", "h", "o", "n", "e", " ", "1", "2">>, Num(17, 10)>>,
         <<<<"i", "P", "h", "o", "n", "e", " ", "1", "3">>, Num(19, 10)>>,
         <<<<"i", "P", "h", "o", "n", "e", " ", "1", "4">>, Num(19, 10)>>,
         <<<<"i", "P", "h", "o", "n", "e", " ", "1", "5">>, Num(19, 10)>>>>],
     [make |-> <<"S", "a", "m", "s", "u", "n", "g">>,
      models |-> <<
         <<<<"G", "a", "l", "a", "x", "y", " ", "S", "2", "1">>, Num(9, 5)>>,
         <<<<"G", "a", "l", "a", "x", "y", " ", "S", "2", "2">>, Num(9, 5)>>,
         <<<<"G", "a", "l", "a", "x", "y", " ", "S", "2", "3">>, Num(9, 5)>>>>],
     [make |-> <<"C", "a", "n", "o", "n">>,
      models |-> <<
         <<<<"E", "O", "S", " ", "R", "5">>, Num(22, 5)>>,
         <<<<"E", "O", "S", " ", "R", "6">>, Num(6, 1)>>>>]
    >>

cameraDatabase ==
    <<
     [make |-> <<"A", "p", "p", "l", "e">>,
      models |-> <<
         <<<<"i", "P", "h", "o", "n", "e", " ", "1", "5", " ", "P", "r", "o", " ", "M", "a", "x">>, Num(28, 25)>>,
         <<<<"i", "P", "h", "o", "n", "e", " ", "1", "5", " ", "P", "r", "o">>, Num(61, 50)>>,
         <<<<"i", "P", "h", "o", "n", "e", " ", "1", "5", " ", "P", "l", "u", "s">>, Num(63, 50)>>,
         <<<<"i", "P", "h", "o", "n", "e", " ", "1", "5">>, Num(63, 50)>>,
         <<<<"i", "P", "h", "o", "n", "e", " ", "1", "4", " ", "P", "r", "o", " ", "M", "a", "x">>, Num(61, 50)>>,
         <<<<"i", "P", "h", "o", "n", "e", " ", "1", "4", " ", "P", "r", "o">>, Num(61, 50)>>,
         <<<<"i", "P", "h", "o", "n", "e", " ", "1", "4", " ", "P", "l", "u", "s">>, Num(63, 50)>>,
         <<<<"i", "P", "h", "o", "n", "e", " ", "1", "4">>, Num(63, 50)>>,
         <<<<"i", "P", "h", "o", "n", "e", " ", "1", "3", " ", "P", "r", "o", " ", "M", "a", "x">>, Num(19, 10)>>,
         <<<<"i", "P", "h", "o", "n", "e", " ", "1", "3", " ", "P", "r", "o">>, Num(19, 10)>>,
         <<<<"i", "P", "h", "o", "n", "e", " ", "1", "3", " ", "m", "i", "n", "i">>, Num(17, 10)>>,
         <<<<"i", "P", "h", "o", "n", "e", " ", "1", "3">>, Num(17, 10)>>,
         <<<<"i", "P", "h", "o", "n", "e", " ", "1", "2", " ", "P", "r", "o", " ", "M", "a", "x">>, Num(17, 10)>>,
         <<<<"i", "P", "h", "o", "n", "e", " ", "1", "2", " ", "P", "r", "o">>, Num(7, 5)>>,
         <<<<"i", "P", "h", "o", "n", "e", " ", "1", "2", " ", "m", "i", "n", "i">>, Num(7, 5)>>,
         <<<<"i", "P", "h", "o", "n", "e", " ", "1", "2">>, Num(7, 5)>>,
         <<<<"i", "P", "h", "o", "n", "e", " ", "1", "1", " ", "P", "r", "o", " ", "M", "a", "x">>, Num(1, 1)>>,
         <<<<"i", "P", "h", "o", "n", "e", " ", "1", "1", " ", "P", "r", "o">>, Num(1, 1)>>,
         <<<<"i", "P", "h", "o", "n", "e", " ", "1", "1">>, Num(7, 5)>>,
         <<<<"i", "P", "h", "o", "n", "e", " ", "S", "E">>, Num(61, 50)>>,
         <<<<"i", "P", "h", "o", "n", "e", " ", "X", "S", " ", "M", "a", "x">>, Num(7, 5)>>,
         <<<<"i", "P", "h", "o", "n", "e", " ", "X", "S">>, Num(7, 5)>>,
         <<<<"i", "P", "h", "o", "n", "e", " ", "X", "R">>, Num(7, 5)>>,
         <<<<"i", "P", "h", "o", "n", "e", " ", "X">>, Num(61, 50)>>,
         <<<<"i", "P", "h", "o", "n", "e", " ", "8", " ", "P", "l", "u", "s">>, Num(61, 50)>>,
         <<<<"i", "P", "h", "o", "n", "e", " ", "8">>, Num(61, 50)>>,
         <<<<"i", "P", "h", "o", "n", "e", " ", "7", " ", "P", "l", "u", "s">>, Num(61, 50)>>,
         <<<<"i", "P", "h", "o", "n", "e", " ", "7">>, Num(61, 50)>>>>],
     [make |-> <<"S", "a", "m", "s", "u", "n", "g">>,
      models |-> <<
         <<<<"G", "a", "l", "a", "x", "y", " ", "S", "2", "4", " ", "U", "l", "t", "r", "a">>, Num(7, 5)>>,
         <<<<"G", "a", "l", "a", "x", "y", " ", "S", "2", "4", "+">>, Num(7, 5)>>,
         <<<<"G", "a", "l", "a", "x", "y", " ", "S", "2", "4">>, Num(7, 5)>>,
         <<<<"G", "a", "l", "a", "x", "y", " ", "S", "2", "3", " ", "U", "l", "t", "r", "a">>, Num(7, 5)>>,
         <<<<"G", "a", "l", "a", "x", "y", " ", "S", "2", "3", "+">>, Num(7, 5)>>,
         <<<<"G", "a", "l", "a", "x", "y", " ", "S", "2", "3">>, Num(7, 5)>>,
         <<<<"G", "a", "l", "a", "x", "y", " ", "S", "2", "2", " ", "U", "l", "t", "r", "a">>, Num(9, 5)>>,
         <<<<"G", "a", "l", "a", "x", "y", " ", "S", "2", "2", "+">>, Num(9, 5)>>,
         <<<<"G", "a", "l", "a", "x", "y", " ", "S", "2", "2">>, Num(9, 5)>>,
         <<<<"G", "a", "l", "a", "x", "y", " ", "S", "2", "1", " ", "U", "l", "t", "r", "a">>, Num(9, 5)>>,
         <<<<"G", "a", "l", "a", "x", "y", " ", "S", "2", "1", "+">>, Num(9, 5)>>,
         <<<<"G", "a", "l", "a", "x", "y", " ", "S", "2", "1">>, Num(9, 5)>>,
         <<<<"G", "a", "l", "a", "x", "y", " ", "N", "o", "t", "e", " ", "2", "0", " ", "U", "l", "t", "r", "a">>, Num(9, 5)>>,
         <<<<"G", "a", "l", "a", "x", "y", " ", "N", "o", "t", "e", " ", "2", "0">>, Num(9, 5)>>>>],
     [make |-> <<"G", "o", "o", "g", "l", "e">>,
      models |-> <<
         <<<<"P", "i", "x", "e", "l", " ", "8", " ", "P", "r", "o">>, Num(6, 5)>>,
         <<<<"P", "i", "x", "e", "l", " ", "8">>, Num(6, 5)>>,
         <<<<"P", "i", "x", "e", "l", " ", "7", " ", "P", "r", "o">>, Num(6, 5)>>,
         <<<<"P", "i", "x", "e", "l", " ", "7">>, Num(6, 5)>>,
         <<<<"P", "i", "x", "e", "l", " ", "6", " ", "P", "r", "o">>, Num(6, 5)>>,
         <<<<"P", "i", "x", "e", "l", " ", "6">>, Num(6, 5)>>,
         <<<<"P", "i", "x", "e", "l", " ", "5">>, Num(7, 5)>>,
         <<<<"P", "i", "x", "e", "l", " ", "4">>, Num(7, 5)>>,
         <<<<"P", "i", "x", "e", "l", " ", "3">>, Num(7, 5)>>>>],
     [make |-> <<"C", "a", "n", "o", "n">>,
      models |-> <<
         <<<<"E", "O", "S", " ", "R", "5">>, Num(22, 5)>>,
         <<<<"E", "O", "S", " ", "R", "6">>, Num(6, 1)>>,
         <<<<"E", "O", "S", " ", "R">>, Num(27, 5)>>,
         <<<<"E", "O", "S", " ", "5", "D", " ", "M", "a", "r", "k", " ", "I", "V">>, Num(27, 5)>>,
         <<<<"E", "O", "S", " ", "6", "D", " ", "M", "a", "r", "k", " ", "I", "I">>, Num(13, 2)>>,
         <<<<"E", "O", "S", " ", "9", "0", "D">>, Num(16, 5)>>,
         <<<<"E", "O", "S", " ", "M", "5", "0">>, Num(37, 10)>>>>],
     [make |-> <<"N", "i", "k", "o", "n">>,
      models |-> <<
         <<<<"D", "8", "5", "0">>, Num(43, 10)>>,
         <<<<"D", "7", "8", "0">>, Num(59, 10)>>,
         <<<<"D", "7", "5", "0">>, Num(59, 10)>>,
         <<<<"Z", "7">>, Num(43, 10)>>,
         <<<<"Z", "6">>, Num(59, 10)>>,
         <<<<"Z", "5">>, Num(59, 10)>>>>],
     [make |-> <<"S", "o", "n", "y">>,
      models |-> <<
         <<<<"A", "7", "R", " ", "V">>, Num(19, 5)>>,
         <<<<"A", "7", " ", "I", "V">>, Num(59, 10)>>,
         <<<<"A", "7", "R", " ", "I", "V">>, Num(19, 5)>>,
         <<<<"A", "7", "R", " ", "I", "I", "I">>, Num(43, 10)>>,
         <<<<"A", "7", " ", "I", "I", "I">>, Num(59, 10)>>,
         <<<<"A", "6", "7", "0", "0">>, Num(39, 10)>>,
         <<<<"A", "6", "6", "0", "0">>, Num(39, 10)>>,
         <<<<"A", "6", "4", "0", "0">>, Num(39, 10)>>>>]
    >>

fallbacks ==
    <<
     <<<<"A", "p", "p", "l", "e">>, Num(7, 5)>>,
     <<<<"S", "a", "m", "s", "u", "n", "g">>, Num(8, 5)>>,
     <<<<"G", "o", "o", "g", "l", "e">>, Num(13, 10)>>,
     <<<<"C", "a", "n", "o", "n">>, Num(5, 1)>>,
     <<<<"N", "i", "k", "o", "n">>, Num(5, 1)>>,
     <<<<"S", "o", "n", "y">>, Num(9, 2)>>,
     <<<<"H", "u", "a", "w", "e", "i">>, Num(8, 5)>>,
     <<<<"O", "n", "e", "P", "l", "u", "s">>, Num(8, 5)>>,
     <<<<"X", "i", "a", "o", "m", "i">>, Num(8, 5)>>
    >>


\* Array.prototype.find over the indices of a sequence: 0 when none matches
FindIndex(seq, P(_)) ==
    IF \E i \in DOMAIN seq : P(seq[i])
    THEN CHOOSE i \in DOMAIN seq : P(seq[i]) /\ \A j \in 1..(i - 1) : ~P(seq[j])
    ELSE 0

\* s.replace(/[^\w\s]/g, '')
RECURSIVE StripPunctuation(_)
StripPunctuation(s) ==
    IF s = <<>> THEN <<>>
    ELSE IF IsWord(s[1]) \/ IsSpace(s[1]) THEN <<s[1]>> \o StripPunctuation(Tail(s))
    ELSE StripPunctuation(Tail(s))

\* s.split(/\s+/): leading and trailing separators yield empty parts
RECURSIVE Split(_)
Split(s) ==
    IF \E i \in DOMAIN s : IsSpace(s[i])
    THEN LET i == CHOOSE k \in DOMAIN s : IsSpace(s[k]) /\ \A j \in 1..(k - 1) : ~IsSpace(s[j])
             e == RunEnd(s, i, IsSpace)
         IN  <<Slice(s, 1, i)>> \o Split(Slice(s, e, Len(s) + 1))
    ELSE <<s>>

\* keyParts.every(keyPart => modelParts.some(modelPart => ...)) (part_000:800-809)
TokenRule(key, cleanModel) ==
    LET modelParts == Split(StripPunctuation(toLowerCase(cleanModel)))
        keyParts   == Split(StripPunctuation(toLowerCase(key)))
    IN  \A kp \in DOMAIN keyParts : \E mp \in DOMAIN modelParts :
            \/ includes(modelParts[mp], keyParts[kp])
            \/ includes(keyParts[kp], modelParts[mp])

\* the predicate of the model search (part_000:785-812)
ModelKeyMatches(makeKey, key, cleanModel) ==
    LET keyLower   == toLowerCase(key)
        modelLower == toLowerCase(cleanModel)
    IN  \/ keyLower = modelLower
        \/ includes(modelLower, keyLower)
        \/ includes(keyLower, modelLower)
        \/ /\ makeKey = <<"A", "p", "p", "l", "e">>
           /\ TokenRule(key, cleanModel)

\* estimatePixelSize of the "manual" and "edge" variants; make and model are
\* character sequences
estimatePixelSize(make, model) ==
    LET cleanMake  == trim(make)
        cleanModel == trim(model)
        MakeHit(entry) ==
            \/ includes(toLowerCase(cleanMake), toLowerCase(entry.make))
            \/ includes(toLowerCase(entry.make), toLowerCase(cleanMake))
        mk == FindIndex(cameraDatabase, MakeHit)
        ModelHit(pair) == ModelKeyMatches(cameraDatabase[mk].make, pair[1], cleanModel)
        md == IF mk = 0 THEN 0 ELSE FindIndex(cameraDatabase[mk].models, ModelHit)
        FallbackHit(pair) == includes(toLowerCase(cleanMake), toLowerCase(pair[1]))
        fb == FindIndex(fallbacks, FallbackHit)
    IN  IF md # 0 THEN cameraDatabase[mk].models[md][2]
        ELSE IF fb # 0 THEN fallbacks[fb][2]
        ELSE Num(16, 10)

\* estimatePixelSize of the "basic" variant (part_000:155-190)
estimatePixelSizeBasic(make, model) ==
    LET MakeHit(entry) == includes(toLowerCase(make), toLowerCase(entry.make))
        mk == FindIndex(basicCameraDatabase, MakeHit)
        ModelHit(pair) == includes(toLowerCase(model), toLowerCase(pair[1]))
        md == IF mk = 0 THEN 0 ELSE FindIndex(basicCameraDatabase[mk].models, ModelHit)
    IN  IF md # 0 THEN basicCameraDatabase[mk].models[md][2]
        ELSE Num(18, 10)

\* a heuristic whose boundaries belong to the higher class
estimatePixelSizeFromDimensionsInclusive(width, height) ==
    IF Gt(width, 2999) /\ Gt(height, 1999) THEN Num(18, 10)
    ELSE IF Gt(width, 1999) /\ Gt(height, 1499) THEN Num(20, 10)
    ELSE Num(22, 10)

\* estimatePixelSizeFromDimensions (part_000:848-858, 193-203; server.js:475-485)
estimatePixelSizeFromDimensions(width, height) ==
    IF Gt(width, 3000) /\ Gt(height, 2000) THEN Num(18, 10)
    ELSE IF Gt(width, 2000) /\ Gt(height, 1500) THEN Num(20, 10)
    ELSE Num(22, 10)

(***************************************************************************)
(* EXIF data: a mapping from the tag names the servers read to values;     *)
(* Null stands for an absent tag, "Other" for any tag the servers ignore.  *)
(***************************************************************************)
ExifKeys ==
    {"Make", "make", "0th.Make", "Image Make",
     "Model", "model", "0th.Model", "Image Model",
     "ImageWidth", "Image Width", "ExifImageWidth", "EXIF ExifImageWidth",
     "ImageHeight", "Image Length", "ExifImageHeight", "EXIF ExifImageHeight",
     "FocalLength", "EXIF FocalLength", "FocalLengthIn35mmFormat",
     "EXIF FocalLengthIn35mmFormat", "0th.FocalLength",
     "FocalPlaneXResolution", "EXIF FocalPlaneXResolution",
     "FocalPlaneYResolution", "EXIF FocalPlaneYResolution",
     "FocalPlaneResolutionUnit", "EXIF FocalPlaneResolutionUnit",
     "Other"}

Exif(tags) == [k \in ExifKeys |-> IF k \in DOMAIN tags THEN tags[k] ELSE Null]

\* Object.keys(exifData).length > 0
HasKeys(exifData) == \E k \in ExifKeys : exifData[k] # Null

\* calculatePixelSizeFromResolution (part_000:663-680, server.js:290-307)
calculatePixelSizeFromResolution(exifData) ==
    LET xRes    == Or(exifData["FocalPlaneXResolution"], exifData["EXIF FocalPlaneXResolution"])
        yRes    == Or(exifData["FocalPlaneYResolution"], exifData["EXIF FocalPlaneYResolution"])
        resUnit == Or(Or(exifData["FocalPlaneResolutionUnit"],
                         exifData["EXIF FocalPlaneResolutionUnit"]), IntV(2))
        conversionFactor == IF resUnit = IntV(3) THEN IntV(10000) ELSE IntV(25400)
        pixelSizeX == Div(conversionFactor, xRes)
        pixelSizeY == Div(conversionFactor, yRes)
    IN  IF Truthy(xRes) /\ Truthy(yRes)
        THEN Div(Add(pixelSizeX, pixelSizeY), IntV(2))
        ELSE Null

(***************************************************************************)
(* extractCameraSpecs of the "manual" and "edge" variants                  *)
(* (part_000:596-660, server.js:223-287).  threw records a TypeError       *)
(* raised by estimatePixelSize on a make or model that is not a string.    *)
(***************************************************************************)
\* a specification that starts without the manual values
InitialSpecsWithoutManual(manualFocalLength, manualPixelSize) ==
    [focalLength |-> Null, pixelSize |-> Null,
     make |-> Null, model |-> Null, imageWidth |-> Null, imageHeight |-> Null,
     source |-> "manual", threw |-> FALSE]

\* const specs = { focalLength: manualFocalLength, pixelSize: manualPixelSize, ... }
InitialSpecs(manualFocalLength, manualPixelSize) ==
    [focalLength |-> manualFocalLength, pixelSize |-> manualPixelSize,
     make |-> Null, model |-> Null, imageWidth |-> Null, imageHeight |-> Null,
     source |-> "manual", threw |-> FALSE]

\* make, model and image dimensions under their tag-name variations
WithMakeModel(specs, exifData) ==
    [specs EXCEPT
        !.make  = Or(Or(Or(Or(exifData["Make"], exifData["make"]), exifData["0th.Make"]),
                        exifData["Image Make"]), Null),
        !.model = Or(Or(Or(Or(exifData["Model"], exifData["model"]), exifData["0th.Model"]),
                        exifData["Image Model"]), Null),
        !.imageWidth  = Or(Or(Or(Or(exifData["ImageWidth"], exifData["Image Width"]),
                                 exifData["ExifImageWidth"]),
                              exifData["EXIF ExifImageWidth"]), Null),
        !.imageHeight = Or(Or(Or(Or(exifData["ImageHeight"], exifData["Image Length"]),
                                 exifData["ExifImageHeight"]),
                              exifData["EXIF ExifImageHeight"]), Null)]

ExifFocalLength(exifData) ==
    Or(Or(Or(Or(Or(exifData["FocalLength"], exifData["EXIF FocalLength"]),
                exifData["FocalLengthIn35mmFormat"]),
             exifData["EXIF FocalLengthIn35mmFormat"]),
          exifData["0th.FocalLength"]), Null)

\* if (!specs.focalLength) { specs.focalLength = ...; if (specs.focalLength) source = 'exif' }
WithFocalLength(specs, exifData) ==
    IF Truthy(specs.focalLength) THEN specs
    ELSE [specs EXCEPT !.focalLength = ExifFocalLength(exifData),
                       !.source = IF Truthy(ExifFocalLength(exifData)) THEN "exif" ELSE @]

\* specs.pixelSize = exifData.FocalPlaneXResolution ? calculate... : null
WithResolution(specs, exifData) ==
    [specs EXCEPT !.pixelSize = IF Truthy(exifData["FocalPlaneXResolution"])
                                THEN calculatePixelSizeFromResolution(exifData)
                                ELSE Null]

\* the database estimate p and the source it leaves
Estimated(specs, p) ==
    [specs EXCEPT !.pixelSize = p,
                  !.source = IF Truthy(p) /\ @ = "exif" THEN "exif+database"
                             ELSE IF Truthy(p) THEN "database"
                             ELSE @]

\* a lookup that finds nothing and leaves the pixel size to the next step
WithDatabaseMiss(specs) == specs

\* if (!specs.pixelSize && specs.make && specs.model): estimatePixelSize
\* calls trim on both and throws when one is not a string
WithDatabase(specs) ==
    IF Truthy(specs.pixelSize) \/ ~Truthy(specs.make) \/ ~Truthy(specs.model) THEN specs
    ELSE IF specs.make.t # "str" \/ specs.model.t # "str"
    THEN [specs EXCEPT !.threw = TRUE]
    ELSE Estimated(specs, estimatePixelSize(specs.make.s, specs.model.s))

\* if (!specs.pixelSize && specs.imageWidth && specs.imageHeight)
WithDimensions(specs) ==
    IF Truthy(specs.pixelSize) \/ ~Truthy(specs.imageWidth) \/ ~Truthy(specs.imageHeight)
    THEN specs
    ELSE [specs EXCEPT
            !.pixelSize = estimatePixelSizeFromDimensions(specs.imageWidth, specs.imageHeight),
            !.source = IF @ = "exif" THEN "exif+dimensions"
                       ELSE IF @ = "exif+database" THEN "exif+database+dimensions"
                       ELSE "dimensions"]

\* if (!specs.pixelSize) { EXIF resolution, then database, then dimensions }
WithPixelSize(specs, exifData) ==
    IF Truthy(specs.pixelSize) THEN specs
    ELSE WithDimensions(WithDatabase(WithResolution(specs, exifData)))

extractCameraSpecs(exifData, manualFocalLength, manualPixelSize) ==
    IF HasKeys(exifData)
    THEN WithPixelSize(
             WithFocalLength(
                 WithMakeModel(InitialSpecs(manualFocalLength, manualPixelSize), exifData),
                 exifData),
             exifData)
    ELSE InitialSpecs(manualFocalLength, manualPixelSize)

\* extractCameraSpecs of the "basic" variant (part_000:120-152); hasData is
\* false when exifr.parse returned undefined
extractCameraSpecsBasic(hasData, exifData) ==
    LET focalLength == IF Truthy(exifData["FocalLength"]) THEN exifData["FocalLength"]
                       ELSE IF Truthy(exifData["FocalLengthIn35mmFormat"])
                            THEN exifData["FocalLengthIn35mmFormat"]
                            ELSE Null
        useDatabase == Truthy(exifData["Make"]) /\ Truthy(exifData["Model"])
        threw == useDatabase /\ ~(exifData["Make"].t = "str" /\ exifData["Model"].t = "str")
        fromDatabase == IF useDatabase /\ ~threw
                        THEN estimatePixelSizeBasic(exifData["Make"].s, exifData["Model"].s)
                        ELSE Null
        pixelSize == IF ~Truthy(fromDatabase) /\ Truthy(exifData["ImageWidth"])
                        /\ Truthy(exifData["ImageHeight"])
                     THEN estimatePixelSizeFromDimensions(exifData["ImageWidth"],
                                                          exifData["ImageHeight"])
                     ELSE fromDatabase
    IN  IF ~hasData
        THEN [focalLength |-> Null, pixelSize |-> Null, make |-> Null, model |-> Null,
              imageWidth |-> Null, imageHeight |-> Null, source |-> "", threw |-> FALSE]
        ELSE [focalLength |-> focalLength, pixelSize |-> pixelSize,
              make  |-> IF useDatabase THEN exifData["Make"] ELSE Null,
              model |-> IF useDatabase THEN exifData["Model"] ELSE Null,
              imageWidth |-> Null, imageHeight |-> Null, source |-> "", threw |-> threw]

(***************************************************************************)
(* Requests, responses, promises and child processes.                      *)
(***************************************************************************)
Variants == {"basic", "manual", "edge"}

ChildIds == {"edge", "dockerCheck", "docker", "native1", "native2"}

FoundIds == {"docker", "native1", "native2"}

NoSpecs ==
    [focalLength |-> Null, pixelSize |-> Null, make |-> Null, model |-> Null,
     imageWidth |-> Null, imageHeight |-> Null, source |-> "none", threw |-> FALSE]

\* edgeResults = null
NoEdge ==
    [present |-> FALSE, success |-> FALSE, edge_points_file |-> "",
     width |-> Null, height |-> Null]

NoArgs ==
    [command |-> "", focal |-> Null, pixel |-> Null, radius |-> Null,
     edge |-> FALSE, edgeFile |-> "", width |-> Null, height |-> Null]

\* A promise: its state, the value or message it settled with and, for the
\* record, the callback that settled it (by, cause) and what that process
\* had printed and returned.
NoPromise ==
    [state |-> "none", value |-> Null, message |-> "", by |-> "none", cause |-> "none",
     code |-> Null, output |-> <<>>, errorOutput |-> <<>>]

Pending == [NoPromise EXCEPT !.state = "pending"]

Resolved(value, by, cause) ==
    [NoPromise EXCEPT !.state = "resolved", !.value = value, !.by = by, !.cause = cause]

Rejected(message, by, cause) ==
    [NoPromise EXCEPT !.state = "rejected", !.message = message, !.by = by, !.cause = cause]

\* an outcome whose message is taken from the standard error of the process
PrintedWithErrorOutput(outcome, code, c) ==
    [outcome EXCEPT !.code = code, !.output = c.output, !.errorOutput = c.errorOutput,
                    !.message = IF outcome.state = "rejected" /\ c.errorOutput # <<>>
                                THEN "stderr" ELSE @]

\* the outcome together with the exit code and output of the process
Printed(outcome, code, c) ==
    [outcome EXCEPT !.code = code, !.output = c.output, !.errorOutput = c.errorOutput]

NoChild ==
    [st |-> "none", timer |-> "none", errorSeen |-> FALSE, closeSeen |-> FALSE,
     code |-> Null, output |-> <<>>, errorOutput |-> <<>>,
     parses |-> FALSE, result |-> NoEdge,
     settled |-> "none", cause |-> "none", killSent |-> FALSE, args |-> NoArgs]

NoRequest ==
    [endpoint |-> "none", hasFile |-> FALSE, focal |-> Null, pixel |-> Null,
     radius |-> Null, make |-> Null, model |-> Null, exifKind |-> "none", exif |-> "bare",
     aborted |-> FALSE]

\* messages of the servers
MsgNoFile       == "No image file provided"
MsgUnableBasic  == "Unable to extract required camera specifications from image"
MsgNeedsManual  == "Unable to extract required camera specifications from image. Please provide manual input."
MsgBothRequired == "Both focal length and pixel size are required for manual calculation"
MsgNotFound     == "you couldn't be found"
MsgUnparseable  == "Could not parse distance from FOUND output"
MsgProcessFail  == "Failed to process image"
MsgCalculated   == "Distance calculated"
MsgEdgeMissing  == "Edge detection functionality not available"
MsgEdgeTimeout  == "Edge detection timeout"
MsgEdgeParse    == "Failed to parse edge detection results"
MsgEdgeFailed   == "Edge detection script failed"
MsgEdgeSpawn    == "Failed to run edge detection script"
MsgDockerTimeout == "Docker execution timeout - check if the binary is hanging"
MsgDockerExit   == "FOUND binary execution failed in Docker (exit code)"
MsgDockerSpawn  == "Docker execution error"

Response(http, success, needsManualInput, distance, specs, error, message) ==
    [http |-> http, success |-> success, needsManualInput |-> needsManualInput,
     distance |-> distance, specs |-> specs, error |-> error, message |-> message]

(***************************************************************************)
(* Inputs.                                                                 *)
(***************************************************************************)
\* values of the multipart body fields: absent (Null) or text
FocalValues ==
    {Null, Str(<<"2", "6">>), Str(<<"0">>), Str(<<"-", "5">>), Str(<<"a", "b", "c">>)}

PixelValues == {Null, Str(<<"1", ".", "7">>), Str(<<"0">>)}

RadiusValues ==
    {Null, Str(<<"6", "3", "7", "8">>), Str(<<"0">>), Str(<<"-", "1">>), Str(<<"a", "b", "c">>)}

sApple  == <<"A", "p", "p", "l", "e">>
sIPhone == <<"i", "P", "h", "o", "n", "e", " ", "1", "4", " ", "P", "r", "o", " ", "M", "a", "x">>
sIPhone13 == <<"i", "P", "h", "o", "n", "e", " ", "1", "3">>
sIPhone5 == <<"i", "P", "h", "o", "n", "e", " ", "5">>
sAcme   == <<"A", "c", "m", "e">>
sCam    == <<"C", "a", "m", " ", "1">>

\* the make and model fields of the body of a manual calculation: absent, or
\* a device the database lists
DeviceValues == {<<Null, Null>>, <<Str(sApple), Str(sIPhone)>>}

\* the images explored, by name, and what exifr reads from each
ExifSamples ==
    {"bare", "iphone", "iphone13", "noFocal", "equiv35", "resolution", "unlisted",
     "numericMake", "iphone5", "resolutionExif", "resolutionCm",
     "3001x2001", "3001x2000", "3000x2001", "2001x1501", "2001x1500", "2000x1501"}

\* the images that are explored without manual values
WithoutManualValues ==
    {"iphone13", "unlisted", "iphone5", "resolutionExif", "resolutionCm",
     "3001x2001", "3001x2000", "3000x2001", "2001x1501", "2001x1500", "2000x1501"}

ExifOf(image) ==
    CASE image = "bare" -> Exif(<<>>)
      [] image = "iphone" ->
            Exif([Make |-> Str(sApple), Model |-> Str(sIPhone), FocalLength |-> Num(57, 10),
                  ImageWidth |-> IntV(4032), ImageHeight |-> IntV(3024)])
      [] image = "iphone13" ->
            Exif([Make |-> Str(sApple), Model |-> Str(sIPhone13), FocalLength |-> Num(51, 10)])
      [] image = "noFocal" ->
            Exif([Make |-> Str(sApple), Model |-> Str(sIPhone13)])
      [] image = "equiv35" ->
            Exif([FocalLengthIn35mmFormat |-> IntV(52), ImageWidth |-> IntV(3000),
                  ImageHeight |-> IntV(2000)])
      [] image = "resolution" ->
            Exif([FocalLength |-> IntV(4), FocalPlaneXResolution |-> IntV(12700),
                  FocalPlaneYResolution |-> IntV(12700), Make |-> Str(sAcme),
                  Model |-> Str(sCam)])
      [] image = "unlisted" ->
            Exif([Make |-> Str(sAcme), Model |-> Str(sCam), FocalLength |-> IntV(4)])
      [] image = "numericMake" ->
            Exif([Make |-> IntV(7), Model |-> Str(sCam), FocalLength |-> IntV(4)])
      [] image = "iphone5" ->
            Exif([Make |-> Str(sApple), Model |-> Str(sIPhone5)])
      [] image = "resolutionExif" ->
            Exif(("EXIF FocalLength" :> IntV(4))
                 @@ ("EXIF FocalPlaneXResolution" :> IntV(12700))
                 @@ ("EXIF FocalPlaneYResolution" :> IntV(12700)))
      [] image = "resolutionCm" ->
            Exif([FocalPlaneXResolution |-> IntV(4000), FocalPlaneYResolution |-> IntV(5000),
                  FocalPlaneResolutionUnit |-> IntV(3), Make |-> Str(sApple),
                  Model |-> Str(sIPhone13), ImageWidth |-> IntV(4032),
                  ImageHeight |-> IntV(3024)])
      [] image = "3001x2001" ->
            Exif([ImageWidth |-> IntV(3001), ImageHeight |-> IntV(2001)])
      [] image = "3001x2000" ->
            Exif([ImageWidth |-> IntV(3001), ImageHeight |-> IntV(2000)])
      [] image = "3000x2001" ->
            Exif([ImageWidth |-> IntV(3000), ImageHeight |-> IntV(2001)])
      [] image = "2001x1501" ->
            Exif([ImageWidth |-> IntV(2001), ImageHeight |-> IntV(1501)])
      [] image = "2001x1500" ->
            Exif([ImageWidth |-> IntV(2001), ImageHeight |-> IntV(1500)])
      [] image = "2000x1501" ->
            Exif([ImageWidth |-> IntV(2000), ImageHeight |-> IntV(1501)])

ExifKinds == {"data", "undefined", "throws"}

\* what the distance binary may print and how it may exit
oLabeled   == <<"D", "i", "s", "t", "a", "n", "c", "e", " ", "f", "r", "o", "m", " ", "E", "a", "r", "t", "h", ":", " ", "4", ".", "2", "e", "+", "0", "3", " ", "m">>
oMeters    == <<"4", "5", ".", "6", "7", " ", "m", "e", "t", "e", "r", "s">>
oNoNumber  == <<"d", "o", "n", "e">>
oSystem    == <<"s", "y", "s", "t", "e", "m", " ", "o", "k">>
oBare      == <<"4", "2">>
oUnitFirst == <<"7", " ", "m", " ", "D", "i", "s", "t", "a", "n", "c", "e", " ", "f", "r", "o", "m", " ", "E", "a", "r", "t", "h", ":", " ", "4", "2", " ", "m">>
eGlibcxx   == <<"l", "i", "b", "s", "t", "d", "c", "+", "+", ".", "s", "o", ".", "6", ":", " ", "v", "e", "r", "s", "i", "o", "n", " ", "G", "L", "I", "B", "C", "X", "X", "_", "3", ".", "4", ".", "3", "2", " ", "n", "o", "t", " ", "f", "o", "u", "n", "d">>
eTraceback == <<"T", "r", "a", "c", "e", "b", "a", "c", "k", " ", "(", "m", "o", "s", "t", " ", "r", "e", "c", "e", "n", "t", " ", "c", "a", "l", "l", " ", "l", "a", "s", "t", ")">>
eNotFound  == <<"E", "a", "r", "t", "h", " ", "n", "o", "t", " ", "l", "o", "c", "a", "t", "e", "d">>

FoundRuns ==
    {[code |-> IntV(0), output |-> oLabeled,  errorOutput |-> <<>>],
     [code |-> IntV(0), output |-> oMeters,   errorOutput |-> <<>>],
     [code |-> IntV(0), output |-> oNoNumber, errorOutput |-> <<>>],
     [code |-> IntV(0), output |-> oSystem,   errorOutput |-> <<>>],
     [code |-> IntV(0), output |-> oBare,     errorOutput |-> <<>>],
     [code |-> IntV(0), output |-> oUnitFirst, errorOutput |-> <<>>],
     [code |-> IntV(1), output |-> <<>>,      errorOutput |-> eNotFound],
     [code |-> IntV(1), output |-> <<>>,      errorOutput |-> eGlibcxx \o <<"\n">> \o eNotFound],
     [code |-> IntV(1), output |-> <<>>,      errorOutput |-> <<>>]}

\* what edge_detection.py may print (as parsed by JSON.parse) and its exit
EdgeRuns ==
    {[code |-> IntV(0), parses |-> TRUE, errorOutput |-> <<>>,
      result |-> [present |-> TRUE, success |-> TRUE, edge_points_file |-> "edge_points.txt",
                  width |-> IntV(4032), height |-> IntV(3024)]],
     [code |-> IntV(0), parses |-> TRUE, errorOutput |-> <<>>,
      result |-> [present |-> TRUE, success |-> FALSE, edge_points_file |-> "",
                  width |-> Null, height |-> Null]],
     [code |-> IntV(0), parses |-> FALSE, errorOutput |-> <<>>, result |-> NoEdge],
     [code |-> IntV(1), parses |-> FALSE, errorOutput |-> <<>>, result |-> NoEdge],
     [code |-> IntV(1), parses |-> FALSE, errorOutput |-> eTraceback, result |-> NoEdge]}

CheckRuns == {IntV(0), IntV(1)}

(***************************************************************************)
(* State.                                                                  *)
(*   variant       which server source is running                          *)
(*   env           USE_DOCKER_DEBUG && DEBUG_MODE, fs.existsSync of the    *)
(*                 binary and of edge_detection.py                         *)
(*   req           the request being handled                               *)
(*   pc            position of the route handler                           *)
(*   cameraSpecs   the resolved specification (NoSpecs before resolution)  *)
(*   edgePromise   the promise of runEdgeDetection                         *)
(*   edgeResults   the handler's edgeResults variable                      *)
(*   foundPromise  the promise of runFoundBinary awaited by the handler    *)
(*   child         the child processes spawned for the request             *)
(*   responses     the responses sent, in order                            *)
(* For requests handled at the same time:                                  *)
(*   slots         per request in flight, the same eight fields the        *)
(*                 handler and its callbacks hold for it                   *)
(*   staged        per request, the file name multer stored the upload as  *)
(***************************************************************************)
VARIABLES variant, env, req, pc, cameraSpecs, edgePromise, edgeResults,
          foundPromise, child, responses, slots, staged

vars == <<variant, env, req, pc, cameraSpecs, edgePromise, edgeResults,
          foundPromise, child, responses, slots, staged>>

\* the requests that can be in flight together
MaxConcurrent == 2

Slots == 1..MaxConcurrent

\* a request that has not arrived yet
Idle ==
    [req |-> NoRequest, cameraSpecs |-> NoSpecs, pc |-> "idle", edgePromise |-> NoPromise,
     edgeResults |-> NoEdge, foundPromise |-> NoPromise,
     child |-> [id \in ChildIds |-> NoChild], responses |-> <<>>]

\* the part of the state the handler and the process callbacks change
Cur ==
    [req |-> req, cameraSpecs |-> cameraSpecs, pc |-> pc, edgePromise |-> edgePromise, edgeResults |-> edgeResults,
     foundPromise |-> foundPromise, child |-> child, responses |-> responses]

Install(T) ==
    \E S \in {T} :
    /\ req' = S.req
    /\ cameraSpecs' = S.cameraSpecs
    /\ pc' = S.pc
    /\ edgePromise' = S.edgePromise
    /\ edgeResults' = S.edgeResults
    /\ foundPromise' = S.foundPromise
    /\ child' = S.child
    /\ responses' = S.responses
    /\ UNCHANGED <<slots, staged>>

\* req.body.x ? parseFloat(req.body.x) : null
ParseField(v) == IF Truthy(v) THEN parseFloat(v.s) ELSE Null

\* res.json / res.status(..).json: the handler returns after sending
Respond(S, r) == [S EXCEPT !.responses = Append(@, r), !.pc = "done"]

(***************************************************************************)
(* Building the command line of the distance binary.                       *)
(***************************************************************************)
\* a command line built from any edge result, successful or not
EdgeArgsPassedAny(er) == er.present

\* if (edgeResults && edgeResults.success)
EdgeArgsPassed(er) == er.present /\ er.success

\* a test that lets every radius other than 0 pass
RadiusPassedUnlessZero(radius) == Truthy(radius)

\* if (planetaryRadius && planetaryRadius > 0)
RadiusPassed(radius) == Truthy(radius) /\ Positive(radius)

\* the unit conversions of runFoundBinaryNative and buildFoundCommand
FocalLengthArg(v, focalLength) ==
    IF v = "edge" THEN Mul(focalLength, Num(1, 1000)) ELSE focalLength

PixelSizeArg(v, pixelSize) ==
    IF v = "edge" THEN Mul(pixelSize, Num(1, 1000000)) ELSE pixelSize

\* a command line that carries the edge-points file without the image size
FoundArgsFileOnly(v, specs, radius, er) ==
    [command  |-> IF v = "edge" THEN "edge-distance" ELSE "distance",
     focal    |-> FocalLengthArg(v, specs.focalLength),
     pixel    |-> PixelSizeArg(v, specs.pixelSize),
     radius   |-> IF v # "basic" /\ RadiusPassed(radius) THEN radius ELSE Null,
     edge     |-> v = "edge" /\ EdgeArgsPassed(er),
     edgeFile |-> IF v = "edge" /\ EdgeArgsPassed(er) THEN er.edge_points_file ELSE "",
     width    |-> Null,
     height   |-> Null]

\* the argument list of buildFoundCommand, runFoundBinaryNative and runFoundBinary
FoundArgs(v, specs, radius, er) ==
    [command  |-> IF v = "edge" THEN "edge-distance" ELSE "distance",
     focal    |-> FocalLengthArg(v, specs.focalLength),
     pixel    |-> PixelSizeArg(v, specs.pixelSize),
     radius   |-> IF v # "basic" /\ RadiusPassed(radius) THEN radius ELSE Null,
     edge     |-> v = "edge" /\ EdgeArgsPassed(er),
     edgeFile |-> IF v = "edge" /\ EdgeArgsPassed(er) THEN er.edge_points_file ELSE "",
     width    |-> IF v = "edge" /\ EdgeArgsPassed(er) THEN er.width ELSE Null,
     height   |-> IF v = "edge" /\ EdgeArgsPassed(er) THEN er.height ELSE Null]

(***************************************************************************)
(* Child processes.  spawn() returns a handle in every case; a failed      *)
(* launch raises 'error' and then 'close' on the handle.                   *)
(***************************************************************************)
Spawn(S, id, spawnOk, withTimer, args) ==
    [S EXCEPT !.child[id] =
        [NoChild EXCEPT !.st = IF spawnOk THEN "running" ELSE "spawnfail",
                        !.timer = IF withTimer THEN "armed" ELSE "none",
                        !.settled = "pending",
                        !.args = args]]

\* a close handler that leaves the timer armed
ClearTimerSkipped(c) == c

\* clearTimeout(timeout)
ClearTimer(c) == [c EXCEPT !.timer = IF @ = "armed" THEN "cleared" ELSE @]

\* a signal that is sent but does not end the process
KillNotDelivered(c) == [c EXCEPT !.killSent = TRUE]

\* child.kill('SIGKILL'): a running process is terminated
Kill(c) == [c EXCEPT !.killSent = TRUE, !.st = IF @ = "running" THEN "killed" ELSE @]

\* the exit code the 'close' event reports
CloseCode(c) ==
    IF c.st = "exited" \/ c.closeSeen THEN c.code
    ELSE IF c.st = "spawnfail" THEN IntV(-2)
    ELSE Null

(***************************************************************************)
(* The tail of the route handlers: await runFoundBinary in try/catch.      *)
(***************************************************************************)
SuccessResponse(specs, distance) ==
    Response(200, "true", FALSE, distance, specs, "", MsgCalculated)

FailureResponse(specs, message) ==
    Response(200, "false", FALSE, Null, specs, message, message)

\* resolve/reject of the promise the handler awaits; a settled promise
\* ignores further calls
SettleFound(S, outcome) ==
    IF S.foundPromise.state # "pending" THEN S
    ELSE Respond([S EXCEPT !.foundPromise = outcome],
                 IF outcome.state = "resolved"
                 THEN SuccessResponse(S.cameraSpecs, outcome.value)
                 ELSE FailureResponse(S.cameraSpecs, outcome.message))

\* a promise that takes every call of resolve/reject
SettleChildAgain(S, id, outcome) ==
    SettleFound([S EXCEPT !.child[id].settled = outcome.state,
                          !.child[id].cause = outcome.cause], outcome)

\* resolve/reject called by the callbacks of child id
SettleChild(S, id, outcome) ==
    IF S.child[id].settled # "pending" THEN S
    ELSE SettleFound([S EXCEPT !.child[id].settled = outcome.state,
                               !.child[id].cause = outcome.cause], outcome)

NextNative(S) == IF S.child["native1"].st = "none" THEN "native1" ELSE "native2"

\* a native run that spawns without looking for the binary first
RunFoundBinaryNativeUnchecked(S, spawnOk) ==
    Spawn(S, NextNative(S), spawnOk, TRUE,
          FoundArgs(variant, S.cameraSpecs, ParseField(S.req.radius), S.edgeResults))

\* runFoundBinaryNative / runFoundBinary of the basic and manual variants,
\* up to the spawn
RunFoundBinaryNative(S, spawnOk) ==
    IF ~env.binaryExists
    THEN SettleFound(S, Rejected(MsgNotFound, "precheck", "missing"))
    ELSE Spawn(S, NextNative(S), spawnOk, TRUE,
               FoundArgs(variant, S.cameraSpecs, ParseField(S.req.radius), S.edgeResults))

\* runFoundBinaryInDocker up to the spawn of "docker --version"
RunFoundBinaryInDocker(S, spawnOk) == Spawn(S, "dockerCheck", spawnOk, FALSE, NoArgs)

\* executeInDockerContainer up to the spawn of "docker run"
ExecuteInDockerContainer(S, spawnOk) ==
    Spawn(S, "docker", spawnOk, TRUE,
          FoundArgs(variant, S.cameraSpecs, ParseField(S.req.radius), S.edgeResults))

RunFoundBinary(S, spawnOk) ==
    LET S1 == [S EXCEPT !.pc = "awaitFound", !.foundPromise = Pending]
    IN  IF variant = "edge" /\ env.dockerDebug
        THEN RunFoundBinaryInDocker(S1, spawnOk)
        ELSE RunFoundBinaryNative(S1, spawnOk)

(***************************************************************************)
(* The edge stage of the "edge" variant: await runEdgeDetection in         *)
(* try/catch, then the distance stage.                                     *)
(***************************************************************************)
\* the value left in edgeResults when the awaited promise settles
EdgeResultsAfter(outcome, result) ==
    IF outcome.state = "resolved" THEN result ELSE NoEdge

SettleEdge(S, outcome, result, spawnOk) ==
    IF S.edgePromise.state # "pending" THEN S
    ELSE RunFoundBinary([S EXCEPT !.edgePromise = outcome,
                                  !.child["edge"].settled =
                                      IF S.child["edge"].st = "none" THEN @ ELSE outcome.state,
                                  !.child["edge"].cause =
                                      IF S.child["edge"].st = "none" THEN @ ELSE outcome.cause,
                                  !.edgeResults = EdgeResultsAfter(outcome, result)],
                        spawnOk)

RunEdgeDetection(S, spawnOk) ==
    LET S1 == [S EXCEPT !.pc = "awaitEdge", !.edgePromise = Pending]
    IN  IF ~env.scriptExists
        THEN SettleEdge(S1, Rejected(MsgEdgeMissing, "precheck", "missing"), NoEdge, spawnOk)
        ELSE Spawn(S1, "edge", spawnOk, TRUE, NoArgs)

\* the stages after the specification is known
RunStages(S, spawnOk) ==
    IF variant = "edge" THEN RunEdgeDetection(S, spawnOk) ELSE RunFoundBinary(S, spawnOk)

(***************************************************************************)
(* The route handlers up to their first wait on a child process.           *)
(***************************************************************************)
\* a parse result kept from the first upload and handed to every later one
extractExifDataCached(kind, image) ==
    IF slots[1].req.exifKind = "data" THEN ExifOf(slots[1].req.exif)
    ELSE IF kind = "data" THEN ExifOf(image) ELSE Exif(<<>>)

\* extractExifData: a parse that throws or returns nothing yields {}
extractExifData(kind, image) == IF kind = "data" THEN ExifOf(image) ELSE Exif(<<>>)

\* a readiness test that looks at the focal length only
SpecsIncompleteFocalOnly(specs) == ~Truthy(specs.focalLength)

\* if (!cameraSpecs.focalLength || !cameraSpecs.pixelSize)
SpecsIncomplete(specs) == ~Truthy(specs.focalLength) \/ ~Truthy(specs.pixelSize)

sManualInput == <<"M", "a", "n", "u", "a", "l", " ", "I", "n", "p", "u", "t">>

\* POST /api/upload of the manual and edge variants
Upload(S, spawnOk) ==
    LET manualFocalLength == ParseField(S.req.focal)
        manualPixelSize   == ParseField(S.req.pixel)
        exifData == extractExifData(S.req.exifKind, S.req.exif)
        specs    == extractCameraSpecs(exifData, manualFocalLength, manualPixelSize)
        S1       == [S EXCEPT !.cameraSpecs = specs]
    IN  IF ~S.req.hasFile
        THEN Respond(S, Response(400, "absent", FALSE, Null, NoSpecs, MsgNoFile, ""))
        ELSE IF specs.threw
        THEN Respond(S, Response(500, "absent", FALSE, Null, NoSpecs, MsgProcessFail, ""))
        ELSE IF SpecsIncomplete(specs)
        THEN Respond(S1, Response(200, "false", TRUE, Null, specs, MsgNeedsManual, ""))
        ELSE RunStages(S1, spawnOk)

\* POST /api/upload of the basic variant
UploadBasic(S, spawnOk) ==
    LET specs == extractCameraSpecsBasic(S.req.exifKind = "data", ExifOf(S.req.exif))
        S1    == [S EXCEPT !.cameraSpecs = specs]
    IN  IF ~S.req.hasFile
        THEN Respond(S, Response(400, "absent", FALSE, Null, NoSpecs, MsgNoFile, ""))
        ELSE IF S.req.exifKind = "throws" \/ specs.threw
        THEN Respond(S, Response(500, "absent", FALSE, Null, NoSpecs, MsgProcessFail, ""))
        ELSE IF SpecsIncomplete(specs)
        THEN Respond(S1, Response(400, "absent", FALSE, Null, specs, MsgUnableBasic, ""))
        ELSE RunStages(S1, spawnOk)

\* if (!focalLength || !pixelSize) on the raw body fields
ManualFieldsMissing(focal, pixel) == ~Truthy(focal) \/ ~Truthy(pixel)

\* POST /api/calculate-manual of the manual and edge variants
CalculateManual(S, spawnOk) ==
    LET specs == [focalLength |-> parseFloat(S.req.focal.s),
                  pixelSize   |-> parseFloat(S.req.pixel.s),
                  make |-> Str(sManualInput), model |-> Str(sManualInput),
                  imageWidth |-> Null, imageHeight |-> Null,
                  source |-> "manual", threw |-> FALSE]
    IN  IF ~S.req.hasFile
        THEN Respond(S, Response(400, "absent", FALSE, Null, NoSpecs, MsgNoFile, ""))
        ELSE IF ManualFieldsMissing(S.req.focal, S.req.pixel)
        THEN Respond(S, Response(400, "absent", FALSE, Null, NoSpecs, MsgBothRequired, ""))
        ELSE RunStages([S EXCEPT !.cameraSpecs = specs], spawnOk)

\* The requests explored.  Inputs that the handler of the request never
\* reads are left at a fixed value; the planetary radius is varied, and the
\* Docker debug mode is run, with the manual pair 26 mm / 1.7 um only.  The
\* images of WithoutManualValues are uploaded without manual values, the
\* image "noFocal" without them or with that pair.  A make and model are sent
\* with a manual calculation that has a focal length and no pixel size.
ManualPair(r) ==
    /\ r.focal = Str(<<"2", "6">>)
    /\ r.pixel = Str(<<"1", ".", "7">>)
    /\ r.exifKind = "data"
    /\ r.exif = "bare"

RequestShape(r) ==
    /\ r.endpoint = "manual" => variant # "basic"
    /\ r.exifKind # "data" => r.exif = "bare"
    /\ r.endpoint = "manual" => r.exifKind = "data" /\ r.exif = "bare"
    /\ variant = "basic" => r.focal = Null /\ r.pixel = Null /\ r.radius = Null
    /\ ~r.hasFile => /\ r.focal = Null /\ r.pixel = Null /\ r.radius = Null
                     /\ r.exifKind = "data" /\ r.exif = "bare"
    /\ r.radius # Null => ManualPair(r)
    /\ r.make # Null => /\ r.endpoint = "manual"
                        /\ r.hasFile
                        /\ r.focal = Str(<<"2", "6">>)
                        /\ r.pixel = Null
                        /\ ~env.dockerDebug
    /\ r.exif \in WithoutManualValues => r.focal = Null /\ r.pixel = Null
    /\ r.exif = "noFocal" => \/ r.focal = Null /\ r.pixel = Null
                             \/ /\ r.focal = Str(<<"2", "6">>)
                                /\ r.pixel = Str(<<"1", ".", "7">>)
    /\ env.dockerDebug /\ r.hasFile => ManualPair(r)

Receive ==
    /\ pc = "idle"
    /\ \E endpoint \in {"upload", "manual"}, hasFile \in BOOLEAN,
          focal \in FocalValues, pixel \in PixelValues, radius \in RadiusValues,
          device \in DeviceValues,
          exifKind \in ExifKinds, exif \in ExifSamples, spawnOk \in BOOLEAN :
         LET r == [endpoint |-> endpoint, hasFile |-> hasFile, focal |-> focal,
                   pixel |-> pixel, radius |-> radius, make |-> device[1],
                   model |-> device[2], exifKind |-> exifKind, exif |-> exif,
                   aborted |-> FALSE]
             S == [Cur EXCEPT !.req = r]
         IN  /\ RequestShape(r)
             /\ Install(IF endpoint = "manual" THEN CalculateManual(S, spawnOk)
                        ELSE IF variant = "basic" THEN UploadBasic(S, spawnOk)
                        ELSE Upload(S, spawnOk))
    /\ UNCHANGED <<variant, env>>

(***************************************************************************)
(* Process events and their callbacks.                                     *)
(***************************************************************************)
\* the process ends by itself
ChildExit ==
    /\ \E id \in ChildIds :
         /\ child[id].st = "running"
         /\ \/ /\ id = "edge"
               /\ \E r \in EdgeRuns :
                    child' = [child EXCEPT ![id] =
                                [@ EXCEPT !.st = "exited", !.code = r.code,
                                          !.parses = r.parses, !.result = r.result,
                                          !.errorOutput = r.errorOutput]]
            \/ /\ id = "dockerCheck"
               /\ \E c \in CheckRuns :
                    child' = [child EXCEPT ![id] = [@ EXCEPT !.st = "exited", !.code = c]]
            \/ /\ id \in FoundIds
               /\ \E r \in FoundRuns :
                    child' = [child EXCEPT ![id] =
                                [@ EXCEPT !.st = "exited", !.code = r.code,
                                          !.output = r.output,
                                          !.errorOutput = r.errorOutput]]
    /\ UNCHANGED <<variant, env, req, pc, cameraSpecs, edgePromise, edgeResults,
                   foundPromise, responses, slots, staged>>

\* child.on('close') of runFoundBinaryNative and of runFoundBinary (basic, manual)
NativeCloseOutcome(v, id, code, output) ==
    LET distance == parseDistanceFromOutput(v, output)
    IN  IF code = IntV(0)
        THEN IF v = "edge" /\ distance = Null
             THEN Rejected(MsgUnparseable, id, "close")
             ELSE Resolved(distance, id, "close")
        ELSE Rejected(MsgNotFound, id, "close")

\* child.on('close') of executeInDockerContainer
DockerCloseOutcome(v, id, code, output) ==
    LET distance == parseDistanceFromOutput(v, output)
    IN  IF code = IntV(0)
        THEN IF distance = Null
             THEN Rejected(MsgUnparseable, id, "close")
             ELSE Resolved(distance, id, "close")
        ELSE Rejected(MsgDockerExit, id, "close")

\* child.on('close') of runEdgeDetection
EdgeCloseOutcome(code, parses) ==
    IF code = IntV(0)
    THEN IF parses THEN Resolved(Null, "edge", "close")
         ELSE Rejected(MsgEdgeParse, "edge", "close")
    ELSE Rejected(MsgEdgeFailed, "edge", "close")

\* after 'close' the handle holds nothing more of the process: the output
\* buffers of the callbacks are dropped with them
Reaped(c) ==
    [c EXCEPT !.closeSeen = TRUE, !.code = CloseCode(c), !.output = <<>>,
              !.errorOutput = <<>>, !.parses = FALSE, !.result = NoEdge]

OnClose(S, id, spawnOk) ==
    LET c    == S.child[id]
        code == CloseCode(c)
        S1   == [S EXCEPT !.child[id] = ClearTimer(Reaped(@))]
    IN  IF id = "edge"
        THEN SettleEdge(S1, EdgeCloseOutcome(code, c.parses), c.result, spawnOk)
        ELSE IF id = "dockerCheck"
        THEN IF code # IntV(0) THEN RunFoundBinaryNative(S1, spawnOk)
             ELSE ExecuteInDockerContainer(S1, spawnOk)
        ELSE IF id = "docker"
        THEN SettleChild(S1, id, Printed(DockerCloseOutcome(variant, id, code, c.output), code, c))
        ELSE SettleChild(S1, id, Printed(NativeCloseOutcome(variant, id, code, c.output), code, c))

\* 'close' follows the end of the process, and 'error' after a failed launch
CloseEnabled(c) ==
    /\ ~c.closeSeen
    /\ \/ c.st \in {"exited", "killed"}
       \/ c.st = "spawnfail" /\ c.errorSeen

ChildClose ==
    /\ \E id \in ChildIds, spawnOk \in BOOLEAN :
         /\ CloseEnabled(child[id])
         /\ Install(OnClose(Cur, id, spawnOk))
    /\ UNCHANGED <<variant, env>>

\* an 'error' callback that leaves the timer armed
OnErrorTimerKept(S, id, spawnOk) ==
    LET S1 == [S EXCEPT !.child[id] = [@ EXCEPT !.errorSeen = TRUE]]
    IN  IF id = "edge"
        THEN SettleEdge(S1, Rejected(MsgEdgeSpawn, "edge", "error"), NoEdge, spawnOk)
        ELSE IF id = "dockerCheck"
        THEN RunFoundBinaryNative(S1, spawnOk)
        ELSE IF id = "docker"
        THEN SettleChild(S1, id, Rejected(MsgDockerSpawn, id, "error"))
        ELSE SettleChild(S1, id, Rejected(MsgNotFound, id, "error"))

OnError(S, id, spawnOk) ==
    LET S1 == [S EXCEPT !.child[id] = ClearTimer([@ EXCEPT !.errorSeen = TRUE])]
    IN  IF id = "edge"
        THEN SettleEdge(S1, Rejected(MsgEdgeSpawn, "edge", "error"), NoEdge, spawnOk)
        ELSE IF id = "dockerCheck"
        THEN RunFoundBinaryNative(S1, spawnOk)
        ELSE IF id = "docker"
        THEN SettleChild(S1, id, Rejected(MsgDockerSpawn, id, "error"))
        ELSE SettleChild(S1, id, Rejected(MsgNotFound, id, "error"))

ChildError ==
    /\ \E id \in ChildIds, spawnOk \in BOOLEAN :
         /\ child[id].st = "spawnfail"
         /\ ~child[id].errorSeen
         /\ Install(OnError(Cur, id, spawnOk))
    /\ UNCHANGED <<variant, env>>

\* the setTimeout callbacks
TimeoutMessage(id) ==
    IF id = "edge" THEN MsgEdgeTimeout
    ELSE IF id = "docker" THEN MsgDockerTimeout
    ELSE MsgNotFound

OnTimeout(S, id, spawnOk) ==
    LET S1 == [S EXCEPT !.child[id] = Kill([@ EXCEPT !.timer = "fired"])]
    IN  IF id = "edge"
        THEN SettleEdge(S1, Rejected(TimeoutMessage(id), id, "timeout"), NoEdge, spawnOk)
        ELSE SettleChild(S1, id, Rejected(TimeoutMessage(id), id, "timeout"))

\* the 'error' of a failed launch is raised on the next tick, before any timer
Timeout ==
    /\ \E id \in ChildIds, spawnOk \in BOOLEAN :
         /\ child[id].timer = "armed"
         /\ child[id].st # "spawnfail"
         /\ Install(OnTimeout(Cur, id, spawnOk))
    /\ UNCHANGED <<variant, env>>

(***************************************************************************)
(* Specification.  Only the edge variant reads USE_DOCKER_DEBUG and looks   *)
(* for edge_detection.py; the Docker debug mode is explored on a           *)
(* deployment without the script.                                          *)
(***************************************************************************)
Init ==
    /\ variant \in Variants
    /\ env \in [dockerDebug : BOOLEAN, binaryExists : BOOLEAN, scriptExists : BOOLEAN]
    /\ variant # "edge" => ~env.dockerDebug /\ env.scriptExists
    /\ env.dockerDebug => ~env.scriptExists
    /\ req = NoRequest
    /\ pc = "idle"
    /\ cameraSpecs = NoSpecs
    /\ edgePromise = NoPromise
    /\ edgeResults = NoEdge
    /\ foundPromise = NoPromise
    /\ child = [id \in ChildIds |-> NoChild]
    /\ responses = <<>>
    /\ slots = [i \in Slots |-> Idle]
    /\ staged = [i \in Slots |-> <<>>]

Next == Receive \/ ChildExit \/ ChildClose \/ ChildError \/ Timeout

Spec == Init /\ [][Next]_vars

\* The event loop delivers the 'close' and 'error' events of a process that
\* has ended or failed to launch, and runs the callback of an armed timer.
\* Nothing makes a running process end by itself.
Fairness == WF_vars(ChildClose) /\ WF_vars(ChildError) /\ WF_vars(Timeout)

\* explored on the deployments that run the distance stage without the edge
\* stage before it: natively, or behind the Docker check
InitLive == Init /\ (variant = "edge" => env.dockerDebug)

Live == InitLive /\ [][Next]_vars /\ Fairness

(***************************************************************************)
(* Requests handled at the same time.  Every request runs the same route   *)
(* handler and the same process callbacks on its own locals (req, res and  *)
(* the const and let bindings of the handler and of the promise            *)
(* executors); the module-level bindings are constants.  The requests are  *)
(* numbered in the order of arrival.  Explored on a deployment with the    *)
(* binary present, the edge script absent and Docker debug mode off, with  *)
(* uploads of two images to the servers that take manual values.           *)
(***************************************************************************)
\* uuidv4(): a value no earlier call has returned; the k-th call gives k
Uuid(k) == <<"uuid", k>>

\* the template literal uuidv4() + "-" + file.originalname
StagedNameOriginal(uuid, originalname) == <<originalname>>

StagedName(uuid, originalname) == uuid \o <<"-", originalname>>

\* the uploads sent while others are in flight
ConcurrentRequests ==
    {r \in [endpoint : {"upload"}, hasFile : {TRUE},
            focal : {Null, Str(<<"2", "6">>)}, pixel : {Null, Str(<<"1", ".", "7">>)},
            radius : {Null}, make : {Null}, model : {Null},
            exifKind : {"data"}, exif : {"bare", "noFocal"}, aborted : {FALSE}] :
        /\ RequestShape(r)
        /\ (r.focal = Null) = (r.pixel = Null)}

\* how the distance binary ends in these runs
ConcurrentRuns == {r \in FoundRuns : r.output = oLabeled \/ r.errorOutput = eNotFound}

\* the process of request i ends by itself
OnExit(S, id, r) ==
    [S EXCEPT !.child[id] = [@ EXCEPT !.st = "exited", !.code = r.code,
                                      !.output = r.output,
                                      !.errorOutput = r.errorOutput]]

\* the single-request state is not touched
Single == <<variant, env, req, pc, cameraSpecs, edgePromise, edgeResults,
            foundPromise, child, responses>>

\* multer stores the file, then the route handler runs up to its first wait
Arrive ==
    /\ \E i \in Slots, r \in ConcurrentRequests, spawnOk \in BOOLEAN :
         /\ slots[i].pc = "idle"
         /\ \A j \in Slots : j < i => slots[j].pc # "idle"
         /\ staged' = [staged EXCEPT ![i] = StagedName(Uuid(i), r.exif)]
         /\ slots' = [slots EXCEPT ![i] = Upload([@ EXCEPT !.req = r], spawnOk)]
    /\ UNCHANGED Single

ExitOf ==
    /\ \E i \in Slots, id \in FoundIds, r \in ConcurrentRuns :
         /\ slots[i].child[id].st = "running"
         /\ slots' = [slots EXCEPT ![i] = OnExit(@, id, r)]
    /\ UNCHANGED <<Single, staged>>

CloseOf ==
    /\ \E i \in Slots, id \in ChildIds, spawnOk \in BOOLEAN :
         /\ CloseEnabled(slots[i].child[id])
         /\ slots' = [slots EXCEPT ![i] = OnClose(@, id, spawnOk)]
    /\ UNCHANGED <<Single, staged>>

ErrorOf ==
    /\ \E i \in Slots, id \in ChildIds, spawnOk \in BOOLEAN :
         /\ slots[i].child[id].st = "spawnfail"
         /\ ~slots[i].child[id].errorSeen
         /\ slots' = [slots EXCEPT ![i] = OnError(@, id, spawnOk)]
    /\ UNCHANGED <<Single, staged>>

TimeoutOf ==
    /\ \E i \in Slots, id \in ChildIds, spawnOk \in BOOLEAN :
         /\ slots[i].child[id].timer = "armed"
         /\ slots[i].child[id].st # "spawnfail"
         /\ slots' = [slots EXCEPT ![i] = OnTimeout(@, id, spawnOk)]
    /\ UNCHANGED <<Single, staged>>

InitConcurrent ==
    /\ Init
    /\ variant # "basic"
    /\ ~env.dockerDebug
    /\ env.binaryExists
    /\ env.scriptExists = (variant # "edge")

NextConcurrent == Arrive \/ ExitOf \/ CloseOf \/ ErrorOf \/ TimeoutOf

Concurrent == InitConcurrent /\ [][NextConcurrent]_vars

(***************************************************************************)
(* Requests whose client goes away.  The connection of a request in flight *)
(* may close at any moment; req.aborted stands for the closed connection.  *)
(* No route handler and no promise executor registers a listener on the    *)
(* request, the response or the socket, so nothing else changes.           *)
(***************************************************************************)
DisconnectOf ==
    /\ \E i \in Slots :
         /\ slots[i].pc \notin {"idle", "done"}
         /\ ~slots[i].req.aborted
         /\ slots' = [slots EXCEPT ![i].req.aborted = TRUE]
    /\ UNCHANGED <<Single, staged>>

NextCancellation == Arrive \/ ExitOf \/ CloseOf \/ ErrorOf \/ TimeoutOf \/ DisconnectOf

Cancellation == InitConcurrent /\ [][NextCancellation]_vars

(***************************************************************************)
(* Terminal states of a request, read off the response.                    *)
(***************************************************************************)
\* the message the compatibility notes promise for a library mismatch
MsgCompat == "Binary compatibility issue"

StatusOf(r) ==
    IF r.http = 500 THEN "InternalError"
    ELSE IF r.success = "true" THEN "Success"
    ELSE IF r.needsManualInput \/ r.error = MsgUnableBasic THEN "NeedsManualInput"
    ELSE IF r.http = 400 THEN "BadRequest"
    ELSE IF r.message = MsgCompat THEN "EnvironmentIncompatible"
    ELSE "ComputationFailed"

\* no number: absent, or not a number
Missing(v) == v.t # "num"

Resolved_ == cameraSpecs # NoSpecs

Started(id) == child[id].st # "none"

DistanceIds == {"dockerCheck", "docker", "native1", "native2"}

sVersionMarker == <<"G", "L", "I", "B", "C", "X", "X", "_", "3", ".", "4", ".", "3", "2">>

sNotLocated == <<"n", "o", "t", " ", "l", "o", "c", "a", "t", "e", "d">>

HasVersionMarker(p) == includes(p.output \o p.errorOutput, sVersionMarker)

HasNotLocatedMarker(p) == includes(p.output \o p.errorOutput, sNotLocated)

\* the edge stage ended without a successful result
EdgeFailed ==
    \/ edgePromise.state = "rejected"
    \/ edgePromise.state = "resolved" /\ edgeResults.present /\ ~edgeResults.success

(***************************************************************************)
(* C1.  In /api/upload, a resolved specification whose focal length or     *)
(* pixel pitch is missing ends the request in NeedsManualInput: no child   *)
(* process is spawned and the response carries the partial specification.  *)
(***************************************************************************)
C1_IncompleteSpecsNeedManualInput ==
    (/\ req.endpoint = "upload"
     /\ Resolved_
     /\ (Missing(cameraSpecs.focalLength) \/ Missing(cameraSpecs.pixelSize)))
    => /\ \A id \in ChildIds : ~Started(id)
       /\ pc = "done"
       /\ Len(responses) = 1
       /\ StatusOf(responses[1]) = "NeedsManualInput"
       /\ responses[1].specs = cameraSpecs

C1_Witness ==
    /\ variant = "edge"
    /\ req.endpoint = "upload"
    /\ Resolved_
    /\ IsNum(cameraSpecs.focalLength)
    /\ Missing(cameraSpecs.pixelSize)
    /\ Len(responses) = 1
    /\ responses[1].needsManualInput

(***************************************************************************)
(* C2.  The distance computer is only ever invoked with a focal length and *)
(* a pixel pitch that are both numbers strictly greater than 0.            *)
(***************************************************************************)
C2_DistanceInputsPositive ==
    \A id \in FoundIds :
        Started(id) => Positive(child[id].args.focal) /\ Positive(child[id].args.pixel)

(***************************************************************************)
(* C3.  In /api/upload a manual focal length or pixel pitch supplied with  *)
(* the request is the value of the resolved specification, whatever the    *)
(* metadata, the database and the image dimensions hold.                   *)
(***************************************************************************)
C3_ManualValueWins ==
    (req.endpoint = "upload" /\ variant # "basic" /\ Resolved_)
    => /\ req.focal # Null => cameraSpecs.focalLength = parseFloat(req.focal.s)
       /\ req.pixel # Null => cameraSpecs.pixelSize = parseFloat(req.pixel.s)

C5_DistanceAfterEdge ==
    \A id \in DistanceIds : Started(id) => child["edge"].st # "running"

C5_Witness ==
    /\ child["edge"].timer = "fired"
    /\ ~child["edge"].closeSeen
    /\ child["native1"].st = "running"

(***************************************************************************)
(* C6.  A timeout that expires before the child has closed sends the child *)
(* a SIGKILL and fails the invocation, the timeout deciding its outcome;   *)
(* for the edge, the native and the Docker stage alike.                    *)
(***************************************************************************)
C6_TimeoutKillsAndFails ==
    \A id \in ChildIds :
        child[id].timer = "fired"
        => /\ child[id].killSent
           /\ child[id].st # "running"
           /\ child[id].settled = "rejected"
           /\ child[id].cause = "timeout"
           /\ id = "edge" => edgePromise.message = MsgEdgeTimeout
           /\ id = "docker" => foundPromise.message = MsgDockerTimeout

C6_Witness ==
    /\ child["docker"].timer = "fired"
    /\ child["docker"].st = "killed"
    /\ foundPromise.cause = "timeout"

(***************************************************************************)
(* C7.  Once the request has delivered its terminal result no child        *)
(* process started for it is still running.                                *)
(***************************************************************************)
C7_NoProcessOutlivesRequest ==
    pc = "done" => \A id \in ChildIds : child[id].st # "running"

(***************************************************************************)
(* C8.  Output of the distance process holding a library-version marker    *)
(* gives EnvironmentIncompatible, whatever the exit code and the other     *)
(* markers; a 'not located' marker alone gives ComputationFailed.          *)
(***************************************************************************)
C8_VersionMarkerFirst ==
    \A i \in DOMAIN responses :
        foundPromise.cause = "close"
        => /\ HasVersionMarker(foundPromise)
                => StatusOf(responses[i]) = "EnvironmentIncompatible"
           /\ (~HasVersionMarker(foundPromise) /\ HasNotLocatedMarker(foundPromise))
                => StatusOf(responses[i]) = "ComputationFailed"

(***************************************************************************)
(* C9.  A distance process that exits with code 0 and prints nothing a     *)
(* distance can be parsed from ends the request in InternalError, never in *)
(* Success with a null distance.                                           *)
(***************************************************************************)
C9_UnparseableIsInternalError ==
    \A i \in DOMAIN responses :
        /\ (/\ foundPromise.cause = "close"
            /\ foundPromise.code = IntV(0)
            /\ parseDistanceFromOutput(variant, foundPromise.output) = Null)
           => StatusOf(responses[i]) = "InternalError"
        /\ ~(StatusOf(responses[i]) = "Success" /\ responses[i].distance = Null)

(***************************************************************************)
(* C10.  A result carries a numeric distance exactly when its status is    *)
(* Success.                                                                *)
(***************************************************************************)
C10_DistanceIffSuccess ==
    \A i \in DOMAIN responses :
        StatusOf(responses[i]) = "Success" <=> IsNum(responses[i].distance)

(***************************************************************************)
(* C11.  As stated: a distance stage that fails unexpectedly (the process  *)
(* cannot be started, the timeout expires, a zero exit prints nothing a    *)
(* distance can be parsed from, or a non-zero exit carries no marker) ends *)
(* the request in InternalError.                                           *)
(***************************************************************************)
UnexpectedFailure(p) ==
    /\ p.state = "rejected"
    /\ \/ p.cause \in {"error", "timeout"}
       \/ p.message = MsgUnparseable
       \/ /\ p.cause = "close"
          /\ p.code # IntV(0)
          /\ ~HasVersionMarker(p)
          /\ ~HasNotLocatedMarker(p)

C11_UnexpectedFailureIsInternalError ==
    \A i \in DOMAIN responses :
        UnexpectedFailure(foundPromise) => StatusOf(responses[i]) = "InternalError"

(***************************************************************************)
(* C11, as the code has it.  Every rejection of the distance stage,        *)
(* whatever its cause, is answered with status 200, success false and the  *)
(* message of the rejection in both message and error; none is a server    *)
(* fault.                                                                  *)
(***************************************************************************)
C11_DistanceFailureIsNormalResponse ==
    foundPromise.state = "rejected"
    => /\ Len(responses) = 1
       /\ responses[1].http = 200
       /\ responses[1].success = "false"
       /\ responses[1].message = foundPromise.message
       /\ responses[1].error = foundPromise.message
       /\ responses[1].distance = Null

C11_Witness ==
    /\ UnexpectedFailure(foundPromise)
    /\ foundPromise.cause = "timeout"
    /\ Len(responses) = 1
    /\ responses[1].http = 200

(***************************************************************************)
(* C12.  As stated: the outcomes of a distance invocation can be told      *)
(* apart.  A launch failure is reported as a spawn error, an expired       *)
(* timeout as a timeout error, and a non-zero exit is a completed result   *)
(* that is passed on, not an error.                                        *)
(***************************************************************************)
SpawnErrorMessages == {MsgEdgeSpawn, MsgDockerSpawn}

TimeoutErrorMessages == {MsgEdgeTimeout, MsgDockerTimeout}

C12_OutcomesDistinguishable ==
    /\ foundPromise.cause = "error" => foundPromise.message \in SpawnErrorMessages
    /\ foundPromise.cause = "timeout" => foundPromise.message \in TimeoutErrorMessages
    /\ (foundPromise.cause = "close" /\ foundPromise.code # IntV(0))
         => foundPromise.state = "resolved"

(***************************************************************************)
(* C12, as the code has it.  The native distance process rejects with the  *)
(* one message "you couldn't be found" for a launch failure, an expired    *)
(* timeout, a non-zero exit and a missing binary alike, and a non-zero     *)
(* exit is a rejection.  The Docker run and the edge process reject with a *)
(* fixed message of their own for each cause.                              *)
(***************************************************************************)
NativeIds == {"native1", "native2", "precheck"}

C12_NativeFailuresShareOneMessage ==
    /\ (foundPromise.by \in NativeIds /\ foundPromise.cause \in {"error", "timeout", "missing"})
         => foundPromise.state = "rejected" /\ foundPromise.message = MsgNotFound
    /\ (foundPromise.by \in NativeIds /\ foundPromise.cause = "close"
          /\ foundPromise.code # IntV(0))
         => foundPromise.state = "rejected" /\ foundPromise.message = MsgNotFound
    /\ foundPromise.by = "docker"
         => /\ foundPromise.cause = "error" => foundPromise.message = MsgDockerSpawn
            /\ foundPromise.cause = "timeout" => foundPromise.message = MsgDockerTimeout
            /\ (foundPromise.cause = "close" /\ foundPromise.code # IntV(0))
                 => foundPromise.message = MsgDockerExit
    /\ edgePromise.state = "rejected"
         => /\ edgePromise.cause = "error" => edgePromise.message = MsgEdgeSpawn
            /\ edgePromise.cause = "timeout" => edgePromise.message = MsgEdgeTimeout
            /\ edgePromise.cause = "close"
                 => edgePromise.message \in {MsgEdgeParse, MsgEdgeFailed}

C12_Witness ==
    /\ foundPromise.by = "native1"
    /\ foundPromise.cause = "timeout"
    /\ foundPromise.message = MsgNotFound
    /\ child["native1"].killSent

(***************************************************************************)
(* C13.  What a process writes to standard error never reaches the caller: *)
(* message and error of a response are one of the fixed texts of the       *)
(* server, and after a process has closed they are the texts determined by *)
(* its exit code and standard output alone.                                *)
(***************************************************************************)
FixedTexts ==
    {"", MsgNoFile, MsgUnableBasic, MsgNeedsManual, MsgBothRequired, MsgNotFound,
     MsgUnparseable, MsgProcessFail, MsgCalculated, MsgDockerTimeout, MsgDockerExit,
     MsgDockerSpawn}

\* the outcome of a closed distance process, from its exit code and its
\* standard output
OutcomeWithoutErrorOutput(p) ==
    IF p.by = "docker"
    THEN DockerCloseOutcome(variant, p.by, p.code, p.output)
    ELSE NativeCloseOutcome(variant, p.by, p.code, p.output)

EdgeTexts == {"", MsgEdgeMissing, MsgEdgeTimeout, MsgEdgeParse, MsgEdgeFailed, MsgEdgeSpawn}

C13_ErrorOutputNeverInResponse ==
    /\ edgePromise.message \in EdgeTexts
    /\ (edgePromise.state = "rejected" /\ edgePromise.cause = "close")
         => edgePromise.message = EdgeCloseOutcome(child["edge"].code, FALSE).message
    /\ \A i \in DOMAIN responses :
        /\ responses[i].message \in FixedTexts
        /\ responses[i].error \in FixedTexts
        /\ foundPromise.cause = "close"
             => /\ foundPromise.state = OutcomeWithoutErrorOutput(foundPromise).state
                /\ foundPromise.state = "rejected"
                     => /\ responses[i].message
                             = OutcomeWithoutErrorOutput(foundPromise).message
                        /\ responses[i].error
                             = OutcomeWithoutErrorOutput(foundPromise).message

C13_Witness ==
    /\ Len(responses) = 1
    /\ foundPromise.cause = "close"
    /\ foundPromise.errorOutput # <<>>
    /\ responses[1].message = MsgNotFound

(***************************************************************************)
(* C14.  As stated: every request makes one attempt per stage, so at most  *)
(* one distance process is started, also when the Docker availability      *)
(* check emits both 'error' and 'close'.                                   *)
(***************************************************************************)
C14_OneAttemptPerStage ==
    Cardinality({id \in FoundIds : Started(id)}) <= 1

(***************************************************************************)
(* C15.  As stated: when the database holds an entry whose model equals    *)
(* the queried model case-insensitively, the pixel size taken from the     *)
(* database is the value of that entry, also when other entries match by   *)
(* the substring or token rules.                                           *)
(***************************************************************************)
\* the values of the entries that equal make and model case-insensitively
ExactValues(make, model) ==
    UNION {{cameraDatabase[mk].models[i][2] :
              i \in {j \in DOMAIN cameraDatabase[mk].models :
                       toLowerCase(cameraDatabase[mk].models[j][1])
                         = toLowerCase(trim(model))}} :
           mk \in {k \in DOMAIN cameraDatabase :
                     toLowerCase(cameraDatabase[k].make) = toLowerCase(trim(make))}}

\* the pixel size of the specification was taken from the database
FromDatabase ==
    /\ Resolved_
    /\ req.endpoint = "upload"
    /\ variant # "basic"
    /\ cameraSpecs.source \in {"database", "exif+database"}
    /\ cameraSpecs.make.t = "str"
    /\ cameraSpecs.model.t = "str"

C15_ExactMatchWins ==
    (FromDatabase /\ ExactValues(cameraSpecs.make.s, cameraSpecs.model.s) # {})
    => cameraSpecs.pixelSize \in ExactValues(cameraSpecs.make.s, cameraSpecs.model.s)

(***************************************************************************)
(* C16.  As stated: when make and model match no entry of the database and *)
(* neither a manual value nor the EXIF resolution gives the pixel size,    *)
(* the pixel size stays missing and the request ends in NeedsManualInput.  *)
(***************************************************************************)
\* no entry of the database matches make and model
DatabaseMiss(make, model) ==
    \A mk \in DOMAIN cameraDatabase :
        (\/ includes(toLowerCase(trim(make)), toLowerCase(cameraDatabase[mk].make))
         \/ includes(toLowerCase(cameraDatabase[mk].make), toLowerCase(trim(make))))
        => \A i \in DOMAIN cameraDatabase[mk].models :
              ~ModelKeyMatches(cameraDatabase[mk].make, cameraDatabase[mk].models[i][1],
                               trim(model))

C16_DatabaseMissNeedsManualInput ==
    (/\ Resolved_
     /\ req.endpoint = "upload"
     /\ variant # "basic"
     /\ ~Truthy(ParseField(req.pixel))
     /\ ~Truthy(extractExifData(req.exifKind, req.exif)["FocalPlaneXResolution"])
     /\ cameraSpecs.make.t = "str"
     /\ cameraSpecs.model.t = "str"
     /\ DatabaseMiss(cameraSpecs.make.s, cameraSpecs.model.s))
    => /\ Missing(cameraSpecs.pixelSize)
       /\ \A i \in DOMAIN responses : StatusOf(responses[i]) = "NeedsManualInput"

(***************************************************************************)
(* C17.  Resolution has no hidden state: whatever was resolved before, and *)
(* whatever other requests are in flight, the specification of a request   *)
(* is the value extractCameraSpecs gives for its own metadata and manual   *)
(* values, so two resolutions of identical inputs are identical.           *)
(***************************************************************************)
\* the inputs of the resolution of request r
ResolutionInputs(r) == <<r.exifKind, r.exif, r.focal, r.pixel>>

\* the specification of the inputs of r, computed on its own
ResolvedFrom(r) ==
    extractCameraSpecs(IF r.exifKind = "data" THEN ExifOf(r.exif) ELSE Exif(<<>>),
                       ParseField(r.focal), ParseField(r.pixel))

C18_ExtractorFailureIsNoData ==
    (req.endpoint = "upload" /\ req.hasFile /\ req.exifKind = "throws")
    => /\ \A i \in DOMAIN responses : StatusOf(responses[i]) # "InternalError"
       /\ cameraSpecs = IF variant = "basic"
                        THEN extractCameraSpecsBasic(FALSE, Exif(<<>>))
                        ELSE extractCameraSpecs(Exif(<<>>), ParseField(req.focal),
                                                ParseField(req.pixel))

(***************************************************************************)
(* C19.  Requests in flight together do not interfere: two uploads are     *)
(* never stored under the same file name, also when their original names   *)
(* are equal; the response of a request is built from its own              *)
(* specification and the outcome of its own distance process; and requests *)
(* with equal inputs and equal process outcomes have equal results.        *)
(***************************************************************************)
\* the response the handler of request S sends for its own outcome
OwnResponse(S) ==
    IF S.foundPromise.state = "resolved"
    THEN SuccessResponse(S.cameraSpecs, S.foundPromise.value)
    ELSE IF S.foundPromise.state = "rejected"
    THEN FailureResponse(S.cameraSpecs, S.foundPromise.message)
    ELSE Response(200, "false", TRUE, Null, S.cameraSpecs, MsgNeedsManual, "")

\* the outcome of the distance process of request S, from its own output
OwnOutcome(S) ==
    IF S.foundPromise.cause = "close"
    THEN NativeCloseOutcome(variant, S.foundPromise.by, S.foundPromise.code,
                            S.foundPromise.output).state
    ELSE IF S.foundPromise.cause \in {"error", "timeout", "missing"} THEN "rejected"
    ELSE S.foundPromise.state

C19_RequestsDoNotInterfere ==
    /\ \A i \in Slots, j \in Slots :
         (i # j /\ staged[i] # <<>> /\ staged[j] # <<>>) => staged[i] # staged[j]
    /\ \A i \in Slots :
         /\ slots[i].responses # <<>> => slots[i].responses = <<OwnResponse(slots[i])>>
         /\ slots[i].foundPromise.state = OwnOutcome(slots[i])
         /\ slots[i].foundPromise.by \in FoundIds
              => slots[i].child[slots[i].foundPromise.by].settled = slots[i].foundPromise.state
    /\ \A i \in Slots, j \in Slots :
         (/\ slots[i].req = slots[j].req
          /\ slots[i].foundPromise = slots[j].foundPromise)
         => /\ slots[i].cameraSpecs = slots[j].cameraSpecs
            /\ slots[i].responses = slots[j].responses

C19_Witness ==
    /\ slots[1].pc = "awaitFound"
    /\ slots[1].child["native1"].st = "running"
    /\ slots[2].pc = "done"
    /\ slots[2].foundPromise.state = "resolved"
    /\ slots[1].req.exif = slots[2].req.exif
    /\ staged[1] # staged[2]

(***************************************************************************)
(* C20.  On the servers that take manual values: after a request ended in  *)
(* NeedsManualInput, a later upload of the same image with a positive      *)
(* manual focal length and a positive manual pixel size resolves to a      *)
(* specification holding exactly the manual values and goes on to the      *)
(* stages after resolution, whatever the metadata of the image holds.      *)
(***************************************************************************)
\* request j uploads the image of request i again, with positive manual values
Resubmission(i, j) ==
    /\ i < j
    /\ slots[i].responses # <<>>
    /\ StatusOf(slots[i].responses[1]) = "NeedsManualInput"
    /\ slots[j].pc # "idle"
    /\ slots[j].req.exif = slots[i].req.exif
    /\ slots[j].req.exifKind = slots[i].req.exifKind
    /\ Positive(ParseField(slots[j].req.focal))
    /\ Positive(ParseField(slots[j].req.pixel))

C20_ResubmissionProceeds ==
    \A i \in Slots, j \in Slots :
        Resubmission(i, j)
        => /\ slots[j].cameraSpecs.focalLength = ParseField(slots[j].req.focal)
           /\ slots[j].cameraSpecs.pixelSize = ParseField(slots[j].req.pixel)
           /\ ~SpecsIncomplete(slots[j].cameraSpecs)
           /\ slots[j].edgePromise.state # "none" \/ slots[j].foundPromise.state # "none"
           /\ \A k \in DOMAIN slots[j].responses :
                StatusOf(slots[j].responses[k]) # "NeedsManualInput"

C20_Witness ==
    /\ Resubmission(1, 2)
    /\ slots[1].req.exif = "noFocal"
    /\ slots[1].cameraSpecs.pixelSize = Num(19, 10)
    /\ slots[2].cameraSpecs.pixelSize = Num(17, 10)
    /\ slots[2].cameraSpecs.focalLength = IntV(26)
    /\ slots[2].child["native1"].st = "running"

(***************************************************************************)
(* C21.  As stated: with the binary absent at ./build/bin/found the        *)
(* distance stage fails with "you couldn't be found" and spawns no         *)
(* process, and the request ends in a normal success=false response that   *)
(* carries the extracted specification.                                    *)
(***************************************************************************)
\* the distance stage was entered with the binary absent
BinaryAbsent == ~env.binaryExists /\ foundPromise.state # "none"

C22_ManualLooksUpPixelSize ==
    (/\ req.endpoint = "manual"
     /\ req.hasFile
     /\ Truthy(req.focal)
     /\ ~Truthy(req.pixel)
     /\ req.make.t = "str"
     /\ req.model.t = "str"
     /\ ~DatabaseMiss(req.make.s, req.model.s))
    => /\ \A i \in DOMAIN responses : responses[i].error # MsgBothRequired
       /\ cameraSpecs.pixelSize = estimatePixelSize(req.make.s, req.model.s)

(***************************************************************************)
(* C23.  As stated: the printed distance is found by three strategies in   *)
(* order.  A labeled "<label>: <number> m" wins over a bare "<number> m",  *)
(* also over one that stands earlier in the text; a bare "<number> m" wins *)
(* over a bare number; a text that holds only a bare number yields that    *)
(* number.                                                                 *)
(***************************************************************************)
\* the distance binary exited with code 0 and its output went to the parser
ParsedOutput == foundPromise.cause = "close" /\ foundPromise.code = IntV(0)

C23_StrategiesInOrder ==
    ParsedOutput
    => LET distance == parseDistanceFromOutput(variant, foundPromise.output)
       IN  /\ foundPromise.output = oLabeled   => distance = IntV(4200)
           /\ foundPromise.output = oUnitFirst => distance = IntV(42)
           /\ foundPromise.output = oMeters    => distance = Num(4567, 100)
           /\ foundPromise.output = oBare      => distance = IntV(42)

(***************************************************************************)
(* C24.  As stated: an output that holds no number yields no distance, and *)
(* a distance that is returned is a number.                                *)
(***************************************************************************)
HasDigit(output) == \E i \in DOMAIN output : IsDigit(output[i])

C24_NoNumberYieldsNone ==
    ParsedOutput
    => LET distance == parseDistanceFromOutput(variant, foundPromise.output)
       IN  /\ ~HasDigit(foundPromise.output) => distance = Null
           /\ distance # Null => IsNum(distance)

(***************************************************************************)
(* C25.  As stated: for an Apple device the token rule matches a database  *)
(* key exactly when every token of the key is a substring of some token of *)
(* the model.  "iPhone 14 Pro Max" matches the key "iPhone 14 Pro"; a key  *)
(* with a token that occurs in no token of the model does not match.       *)
(***************************************************************************)
\* every token of the key is a substring of some token of the model
KeyTokensInModel(key, cleanModel) ==
    LET modelParts == Split(StripPunctuation(toLowerCase(cleanModel)))
        keyParts   == Split(StripPunctuation(toLowerCase(key)))
    IN  \A kp \in DOMAIN keyParts : \E mp \in DOMAIN modelParts :
            includes(modelParts[mp], keyParts[kp])

AppleKeys == {cameraDatabase[1].models[i][1] : i \in DOMAIN cameraDatabase[1].models}

\* the request resolved the specification of an Apple device
AppleDevice ==
    /\ variant # "basic"
    /\ cameraSpecs.make = Str(sApple)
    /\ cameraSpecs.model.t = "str"

C25_TokenRuleKeyTokensInModel ==
    /\ cameraDatabase[1].make = sApple
    /\ TokenRule(<<"i", "P", "h", "o", "n", "e", " ", "1", "4", " ", "P", "r", "o">>, sIPhone)
    /\ AppleDevice
       => \A key \in AppleKeys :
            TokenRule(key, trim(cameraSpecs.model.s))
                <=> KeyTokensInModel(key, trim(cameraSpecs.model.s))

(***************************************************************************)
(* C26.  As stated: the provenance label of a resolved specification names *)
(* exactly the sources that contributed a value, in the order manual,      *)
(* EXIF, database, dimensions and without duplicates; "manual" is named    *)
(* exactly when a manual value was used, and a later contributor never     *)
(* erases an earlier one.                                                  *)
(***************************************************************************)
\* the sources a label of extractCameraSpecs names
Names(source) ==
    CASE source = "manual" -> <<"manual">>
      [] source = "exif" -> <<"exif">>
      [] source = "database" -> <<"database">>
      [] source = "dimensions" -> <<"dimensions">>
      [] source = "exif+database" -> <<"exif", "database">>
      [] source = "exif+dimensions" -> <<"exif", "dimensions">>
      [] source = "exif+database+dimensions" -> <<"exif", "database", "dimensions">>
      [] OTHER -> <<>>

\* the sources that gave a value of the specification resolved for request r
Contributed(r, name) ==
    LET exifData    == extractExifData(r.exifKind, r.exif)
        manualFocal == Truthy(ParseField(r.focal))
        manualPixel == Truthy(ParseField(r.pixel))
        tags        == WithMakeModel(InitialSpecs(Null, Null), exifData)
        resolution  == Truthy(WithResolution(tags, exifData).pixelSize)
        database    == ~resolution /\ Truthy(WithDatabase(tags).pixelSize)
        dimensions  == ~resolution /\ ~database /\ Truthy(WithDimensions(tags).pixelSize)
    IN  CASE name = "manual" -> manualFocal \/ manualPixel
          [] name = "exif" ->
                /\ HasKeys(exifData)
                /\ \/ ~manualFocal /\ Truthy(ExifFocalLength(exifData))
                   \/ ~manualPixel /\ resolution
          [] name = "database"   -> HasKeys(exifData) /\ ~manualPixel /\ database
          [] name = "dimensions" -> HasKeys(exifData) /\ ~manualPixel /\ dimensions

Contributors(r) ==
    LET IsContributor(name) == Contributed(r, name)
    IN  SelectSeq(<<"manual", "exif", "database", "dimensions">>, IsContributor)

\* an upload whose specification was resolved by extractCameraSpecs
ResolvedUpload ==
    /\ variant # "basic"
    /\ req.endpoint = "upload"
    /\ Resolved_
    /\ ~cameraSpecs.threw

C26_ProvenanceNamesContributors ==
    ResolvedUpload => Names(cameraSpecs.source) = Contributors(req)

(***************************************************************************)
(* C27.  As stated: when the metadata gives only the 35 mm equivalent of   *)
(* the focal length, the resolved focal length is the equivalent scaled by *)
(* the sensor diagonal over the diagonal of the 36 x 24 mm frame; the      *)
(* equivalent itself is never the focal length of the specification or of  *)
(* the distance stage.                                                     *)
(***************************************************************************)
\* the metadata of the request holds a 35 mm equivalent and no focal length,
\* and no manual focal length was sent
OnlyEquivalentKnown ==
    LET exifData == extractExifData(req.exifKind, req.exif)
    IN  /\ req.endpoint = "upload"
        /\ Resolved_
        /\ ~Truthy(ParseField(req.focal))
        /\ HasKeys(exifData)
        /\ ~Truthy(exifData["FocalLength"])
        /\ ~Truthy(exifData["EXIF FocalLength"])
        /\ Truthy(exifData["FocalLengthIn35mmFormat"])

C27_EquivalentIsNeverTheFocalLength ==
    OnlyEquivalentKnown
    => LET f35 == extractExifData(req.exifKind, req.exif)["FocalLengthIn35mmFormat"]
       IN  /\ cameraSpecs.focalLength # f35
           /\ \A id \in FoundIds :
                Started(id) => child[id].args.focal \notin {f35, Mul(f35, Num(1, 1000))}

(***************************************************************************)
(* C28.  As stated: every invocation of the distance binary passes the     *)
(* focal length in meters (millimeters times 1e-3) and the pixel pitch in  *)
(* meters (micrometers times 1e-6), in every variant and on every path.    *)
(***************************************************************************)
C28_ArgumentsInMeters ==
    \A id \in FoundIds :
        Started(id)
        => /\ child[id].args.focal = Mul(cameraSpecs.focalLength, Num(1, 1000))
           /\ child[id].args.pixel = Mul(cameraSpecs.pixelSize, Num(1, 1000000))

(***************************************************************************)
(* C29.  The dimension heuristic gives the pixel pitch only when no other  *)
(* source has given one and the width and height of the image are known:   *)
(* 1.8 when width > 3000 and height > 2000, otherwise 2.0 when             *)
(* width > 2000 and height > 1500, otherwise 2.2.  The boundaries are      *)
(* exclusive: 3001 x 2001 gives 1.8 and 3000 x 2000 gives 2.0.             *)
(***************************************************************************)
\* what the upload of request r knows before the heuristic: the pixel pitch of
\* the sources that come first, and the dimensions of the image
BeforeDimensions(r) ==
    LET exifData == extractExifData(r.exifKind, r.exif)
        tags     == WithMakeModel(InitialSpecs(Null, Null), exifData)
        manual   == ParseField(r.pixel)
        measured == WithResolution(tags, exifData).pixelSize
        listed   == WithDatabase(tags).pixelSize
    IN  IF variant = "basic"
        THEN [pixelSize |-> IF Truthy(exifData["Make"]) /\ Truthy(exifData["Model"])
                            THEN estimatePixelSizeBasic(exifData["Make"].s, exifData["Model"].s)
                            ELSE Null,
              width |-> exifData["ImageWidth"], height |-> exifData["ImageHeight"]]
        ELSE [pixelSize |-> IF Truthy(manual) THEN manual
                            ELSE IF ~HasKeys(exifData) THEN manual
                            ELSE IF Truthy(measured) THEN measured
                            ELSE listed,
              width |-> tags.imageWidth, height |-> tags.imageHeight]

\* the value of the heuristic as the claim states it
DimensionClass(width, height) ==
    IF width.n > 3000 * width.d /\ height.n > 2000 * height.d THEN Num(18, 10)
    ELSE IF width.n > 2000 * width.d /\ height.n > 1500 * height.d THEN Num(20, 10)
    ELSE Num(22, 10)

C29_DimensionHeuristic ==
    (req.endpoint = "upload" /\ Resolved_ /\ ~cameraSpecs.threw)
    => LET b == BeforeDimensions(req)
       IN  /\ Truthy(b.pixelSize) => cameraSpecs.pixelSize = b.pixelSize
           /\ (~Truthy(b.pixelSize) /\ IsNum(b.width) /\ IsNum(b.height)
                  /\ Truthy(b.width) /\ Truthy(b.height))
              => cameraSpecs.pixelSize = DimensionClass(b.width, b.height)
           /\ (~Truthy(b.pixelSize) /\ ~(Truthy(b.width) /\ Truthy(b.height)))
              => ~Truthy(cameraSpecs.pixelSize)
           /\ req.exif = "3001x2001" => cameraSpecs.pixelSize = Num(18, 10)
           /\ (req.exif = "equiv35" /\ ~Truthy(ParseField(req.pixel)))
              => cameraSpecs.pixelSize = Num(20, 10)
           /\ req.exif \in {"3001x2000", "3000x2001", "2001x1501"}
              => cameraSpecs.pixelSize = Num(20, 10)
           /\ req.exif \in {"2001x1500", "2000x1501"} => cameraSpecs.pixelSize = Num(22, 10)

\* the image of 3000 x 2000 pixels went to the distance stage with 2.0
C29_Witness ==
    /\ req.exif = "equiv35"
    /\ ~Truthy(ParseField(req.pixel))
    /\ cameraSpecs.imageWidth = IntV(3000)
    /\ cameraSpecs.imageHeight = IntV(2000)
    /\ cameraSpecs.pixelSize = Num(20, 10)
    /\ cameraSpecs.source = "exif+dimensions"
    /\ Started("native1")

(***************************************************************************)
(* C30.  As stated: when the metadata carries the focal-plane resolution,  *)
(* under either spelling of the keys, and no manual pixel pitch was sent,  *)
(* the pixel pitch is the average of factor / X resolution and             *)
(* factor / Y resolution, with the factor 25400 for inches and 10000 for   *)
(* centimeters; the database and the dimension heuristic are not asked.    *)
(***************************************************************************)
\* the pixel pitch the focal-plane resolution of the metadata gives
PitchOfResolution(exifData) ==
    LET xRes   == Or(exifData["FocalPlaneXResolution"], exifData["EXIF FocalPlaneXResolution"])
        yRes   == Or(exifData["FocalPlaneYResolution"], exifData["EXIF FocalPlaneYResolution"])
        unit   == Or(exifData["FocalPlaneResolutionUnit"],
                     exifData["EXIF FocalPlaneResolutionUnit"])
        factor == IF unit = IntV(3) THEN IntV(10000) ELSE IntV(25400)
    IN  Div(Add(Div(factor, xRes), Div(factor, yRes)), IntV(2))

\* an upload without a manual pixel pitch whose metadata carries the resolution
HasResolution ==
    LET exifData == extractExifData(req.exifKind, req.exif)
    IN  /\ ResolvedUpload
        /\ ~Truthy(ParseField(req.pixel))
        /\ Truthy(Or(exifData["FocalPlaneXResolution"], exifData["EXIF FocalPlaneXResolution"]))
        /\ Truthy(Or(exifData["FocalPlaneYResolution"], exifData["EXIF FocalPlaneYResolution"]))

C30_ResolutionGivesPixelPitch ==
    HasResolution
    => cameraSpecs.pixelSize = PitchOfResolution(extractExifData(req.exifKind, req.exif))

(***************************************************************************)
(* C31.  As stated: the resolver returns a specification for every         *)
(* metadata input (none, empty, partial, or with a make or model that is   *)
(* not a text) and never raises; unusable data only leaves fields unset.   *)
(***************************************************************************)
\* an upload whose metadata was read and handed to the resolver
MetadataRead ==
    /\ req.endpoint = "upload"
    /\ req.hasFile
    /\ req.exifKind # "throws"
    /\ pc # "idle"

\* what the resolver of the variant makes of the metadata of the request
ResolverResult ==
    IF variant = "basic"
    THEN extractCameraSpecsBasic(req.exifKind = "data", ExifOf(req.exif))
    ELSE extractCameraSpecs(extractExifData(req.exifKind, req.exif),
                            ParseField(req.focal), ParseField(req.pixel))

C31_ResolverNeverRaises ==
    MetadataRead
    => /\ ~ResolverResult.threw
       /\ cameraSpecs = ResolverResult
       /\ \A i \in DOMAIN responses : responses[i].error # MsgProcessFail

(***************************************************************************)
(* C32.  Every invocation of the distance binary carries a positive        *)
(* planetary radius: the value of the request when that is a number        *)
(* greater than 0, and otherwise no radius argument, which leaves the      *)
(* default of the binary in force.  A radius that is zero, negative or not *)
(* a number is never on the command line.  (The first revision reads no    *)
(* radius and passes none.)                                                *)
(***************************************************************************)
C32_RadiusPositiveOrDefault ==
    \A id \in FoundIds :
        Started(id)
        => LET sent   == IF req.radius = Null THEN Null ELSE parseFloat(req.radius.s)
               passed == child[id].args.radius
           IN  /\ passed # Null => IsNum(passed) /\ Positive(passed)
               /\ (variant # "basic" /\ IsNum(sent) /\ Positive(sent)) => passed = sent
               /\ ~(IsNum(sent) /\ Positive(sent)) => passed = Null
               /\ variant = "basic" => passed = Null

\* a request with the radius -1 started the distance binary without a radius
C32_Witness ==
    /\ req.radius = Str(<<"-", "1">>)
    /\ Started("native1")
    /\ child["native1"].args.radius = Null
    /\ child["native1"].args.focal # Null

(***************************************************************************)
(* C33.  As stated: when the client of a request disconnects while a child *)
(* process of the request is running, that process is killed.              *)
(***************************************************************************)
C33_DisconnectKillsChild ==
    \A i \in Slots :
        slots[i].req.aborted
        => \A id \in ChildIds :
             slots[i].child[id].st = "running" => slots[i].child[id].killSent

(***************************************************************************)
(* C34.  As stated: every accepted upload is answered in the end, also     *)
(* when a process it started never ends by itself, given that armed timers *)
(* fire: no path waits on a process without a timeout.                     *)
(***************************************************************************)
C34_EveryUploadAnswered ==
    (req.endpoint = "upload" /\ req.hasFile) ~> (pc = "done" /\ Len(responses) > 0)

(***************************************************************************)
(* C35.  Each process invocation settles exactly once and its first event  *)
(* decides: after the timeout has failed the invocation, the 'close' or    *)
(* 'error' of the killed process changes nothing and gives no second       *)
(* result, and after 'close' has settled it no later event changes it.     *)
(***************************************************************************)
Settled(p) == p.state \in {"resolved", "rejected"}

C35_SettlesOnce ==
    [][/\ \A id \in ChildIds :
            child[id].settled \in {"resolved", "rejected"}
            => /\ child'[id].settled = child[id].settled
               /\ child'[id].cause = child[id].cause
       /\ Settled(edgePromise) => edgePromise' = edgePromise /\ edgeResults' = edgeResults
       /\ Settled(foundPromise) => foundPromise' = foundPromise /\ responses' = responses
       /\ Len(responses') <= 1]_vars

\* the timeout failed the run, and the 'close' of the killed process came after
C35_Witness ==
    /\ child["native1"].timer = "fired"
    /\ child["native1"].st = "killed"
    /\ child["native1"].closeSeen
    /\ child["native1"].settled = "rejected"
    /\ child["native1"].cause = "timeout"
    /\ foundPromise.cause = "timeout"
    /\ Len(responses) = 1

(***************************************************************************)
(* C36.  As stated: every request gets exactly one response; once a        *)
(* terminal result has been sent, no second response is sent and no        *)
(* further process is started for the request.                             *)
(***************************************************************************)
C36_OneResponseThenNothing ==
    [][/\ Len(responses') <= 1
       /\ pc' = "done" => Len(responses') = 1
       /\ Len(responses) = 1
          => /\ responses' = responses
             /\ \A id \in ChildIds : child[id].st = "none" => child'[id].st = "none"]_vars

(***************************************************************************)
(* C37.  Once the 'close' or the 'error' of a child process has been       *)
(* handled its timer is cancelled: no kill signal is sent to that process  *)
(* afterwards and its timer does not fire.                                 *)
(***************************************************************************)
Handled(c) == c.closeSeen \/ c.errorSeen

C37_TimerCancelledAfterEnd ==
    [][\A id \in ChildIds :
         /\ Handled(child'[id]) => child'[id].timer # "armed"
         /\ Handled(child[id])
            => /\ child'[id].killSent = child[id].killSent
               /\ child'[id].timer = child[id].timer]_vars

\* the distance binary closed before its timer fired, and the timer was cleared
C37_Witness ==
    /\ child["native1"].closeSeen
    /\ child["native1"].timer = "cleared"
    /\ ~child["native1"].killSent
    /\ Len(responses) = 1

(***************************************************************************)
(* C38.  The command line of the distance stage carries the edge-points     *)
(* file, the image width and the image height all three together exactly   *)
(* when the edge stage returned a result with success = true, and none of   *)
(* the three otherwise; the command, focal length, pixel size and radius    *)
(* arguments are what they are without edge data.                           *)
(***************************************************************************)
EdgeSucceeded == edgeResults.present /\ edgeResults.success

C38_EdgeArgumentsTogether ==
    \A id \in FoundIds :
        Started(id)
        => LET a == child[id].args
           IN  /\ a.edge <=> EdgeSucceeded
               /\ a.edge => /\ a.edgeFile = edgeResults.edge_points_file
                            /\ a.edgeFile # ""
                            /\ a.width = edgeResults.width /\ a.width # Null
                            /\ a.height = edgeResults.height /\ a.height # Null
               /\ ~a.edge => a.edgeFile = "" /\ a.width = Null /\ a.height = Null
               /\ a.command = (IF variant = "edge" THEN "edge-distance" ELSE "distance")
               /\ a.focal = FocalLengthArg(variant, cameraSpecs.focalLength)
               /\ a.pixel = PixelSizeArg(variant, cameraSpecs.pixelSize)
               /\ a.radius = (IF variant # "basic" /\ RadiusPassed(ParseField(req.radius))
                              THEN ParseField(req.radius) ELSE Null)

\* a distance process started with the three edge arguments after a
\* successful edge stage
C38_Witness ==
    /\ EdgeSucceeded
    /\ Started("native1")
    /\ child["native1"].args.edge
    /\ child["native1"].args.edgeFile = "edge_points.txt"
    /\ child["native1"].args.width = IntV(4032)
    /\ child["native1"].args.height = IntV(3024)

\* a distance process started without any of them after an edge stage that
\* reported success = false
C38_WitnessWithout ==
    /\ edgeResults.present
    /\ ~edgeResults.success
    /\ Started("native1")
    /\ ~child["native1"].args.edge

(***************************************************************************)
(* C39.  When the metadata of an upload gives a make and a model, the       *)
(* dimension heuristic is not applied: the pixel size is the manual value,  *)
(* else the one computed from the focal-plane resolution, else the one of   *)
(* the database lookup, which is a positive number for every make and       *)
(* model.  The source "exif+database+dimensions" is never reached.          *)
(***************************************************************************)
MetadataNamesCamera ==
    /\ Resolved_
    /\ ~cameraSpecs.threw
    /\ req.endpoint = "upload"
    /\ Truthy(cameraSpecs.make)
    /\ Truthy(cameraSpecs.model)

DimensionSources == {"dimensions", "exif+dimensions", "exif+database+dimensions"}

====
